---- MODULE Spec2Model ----
(***************************************************************************)
(* A model of the qiankun micro-frontend core: the tenant lifecycle        *)
(* orchestrator (loader.ts, apis.ts), the sandbox container                *)
(* (sandbox/index.ts), the exclusive-instance sandbox                      *)
(* (LegacySandbox) and the virtualized sandbox (ProxySandbox,              *)
(* sandbox/proxySandbox.ts).                                               *)
(*                                                                         *)
(* The module holds one specification per component.  Every specification  *)
(* owns a group of variables and leaves the other groups at their idle     *)
(* values:                                                                 *)
(*   SpecGate, SpecPipeline, FairSpecGate                                  *)
(*                     mount and unmount pipelines of loadApp              *)
(*   SpecConfigured    the same pipelines under every configuration        *)
(*   SpecSingularFunction                                                  *)
(*                     the same pipelines, singular given as a function    *)
(*   SpecRender        the same pipelines, containers leaving the document *)
(*   SpecStateChannel  the same pipelines, tenants using the state channel *)
(*   SpecContainer     mount / unmount calls on sandbox containers         *)
(*   SpecLegacy        one exclusive-instance sandbox over the host global *)
(*   SpecLegacyHost    the same, the host's own code assigning global keys *)
(*   SpecProxy         virtualized sandboxes over the host global          *)
(*   SpecProxyAnyHost  the same, the host page being top or embedded       *)
(*   SpecProxyTraps    the same, with the descriptor traps                 *)
(*   SpecHistoryPatch  the patch of window.g_history.listen                *)
(*   SpecMicroApps     loadMicroApp for one tenant name and container      *)
(*   SpecLifecycles    lifecycle-hook discovery                            *)
(*   SpecHooks         the merge of the hook sets and their execution      *)
(*   SpecScopedCSS     the selector rewrite of <style> elements            *)
(***************************************************************************)
EXTENDS Integers, Sequences, FiniteSets, TLC

(***************************************************************************)
(* Bounds of the model                                                     *)
(***************************************************************************)
NumTenants == 3          \* tenants loaded by loadApp
MaxMounts == 3           \* mount pipelines started in one behaviour
MaxReloads == 1          \* parcel configs re-obtained from the loadMicroApp cache
HooksPerChain == 2       \* hooks in one merged hook list
NumBootstrapPatches == 1 \* free-handles returned by patchAtBootstrapping
NumMountPatches == 2     \* free-handles returned by patchAtMounting
MaxCycles == 3           \* mount calls on one sandbox container
MaxLegacyOps == 3        \* set / defineProperty operations on the exclusive-instance handle
NumSandboxes == 2        \* virtualized sandboxes constructed
MaxProxyOps == 3         \* set / deleteProperty operations on virtualized handles
MaxUnderflow == 1        \* how far below zero activeSandboxCount is followed
NumStyleNodes == 1       \* <style> elements handed to ScopedCSS
MaxProcessCalls == 2     \* css.process calls on one <style> element
MaxInstances == 3        \* loadMicroApp calls for one tenant name and container
MaxListens == 3          \* calls of window.g_history.listen by the tenant
MaxRewrites == 2         \* rewrites of one <style> element that are followed

Tenants == 1..NumTenants
Containers == {"c1", "c2"}

\* the absent element (null / undefined) and the absent deferred (undefined);
\* a wrapper element or a deferred is named <<t, m>>: made by tenant t in its
\* m-th mount pipeline (m = 0: made by loadApp)
Null == << >>
NoDeferred == << >>

\* no listener under an instance id; a listener is named <<t, m>>: registered
\* by tenant t in its m-th mount
NoListener == << >>

\* the wrapper getter has not been called
NotRead == "none"

(***************************************************************************)
(* State of the lifecycle orchestrator                                     *)
(***************************************************************************)
VARIABLES
  singular,                  \* configuration.singular when it is a boolean (loader.ts:259)
  singularIsFunction,        \* typeof configuration.singular === 'function'
  app,                       \* per tenant: what a singular function returns for it now
  mayReject,                 \* whether the tenants' hooks can reject
  sandbox,                   \* configuration.sandbox as start() leaves it (loader.ts:259)
  legacyRender,              \* 'render' in app (loader.ts:294)
  windowProxy,               \* whether the host has window.Proxy
  pc,                        \* per tenant: position in its load / mount / unmount pipeline
  awaiting,                  \* per tenant: the deferred its wait step is suspended on
  prevAppUnmountedDeferred,  \* loader.ts:225
  deferredResolved,          \* deferreds whose resolve() was called
  initialAppWrapperElement,  \* loader.ts:291, per loadApp closure
  appWrapperElement,         \* loader.ts:345, per parcel config
  parcel,                    \* per tenant: the parcel config in use
  dom,                       \* children of each container element
  tornDown,                  \* wrapper elements detached by an unmount pipeline
  sandboxContainer,          \* per tenant: the record createSandboxContainer returns
  bootstrapCalls,            \* per tenant: invocations of the tenant's bootstrap hook
  trace,                     \* per tenant: steps and hooks run by the current pipeline
  blockers,                  \* per tenant: tenants mounted when its mount pipeline started
  nMounts,                   \* per tenant: mount pipelines started
  nReloads,                  \* parcel configs served from the cache
  containers,                \* the container elements that are in the document
  wrapperRead,               \* per tenant: what its sandbox's last call of the wrapper getter gave
  deps,                      \* globalState.ts:10, per instance id: the registered listener
  notified,                  \* the listeners the last emitGlobal invoked
  rawWindow,                 \* the host global object: key -> property descriptor
  legacy,                    \* the fields of the LegacySandbox instance
  nLegacyOps,                \* operations performed through the LegacySandbox handle
  hostChange,                \* keys the host itself assigned while the LegacySandbox was inactive
  proxySandbox,              \* per instance: the fields of a ProxySandbox
  activeSandboxCount,        \* proxySandbox.ts:95
  nProxyOps,                 \* operations performed through ProxySandbox handles
  lifecycleInput,            \* arguments of getLifecyclesFromExports
  lifecycleResult,           \* what getLifecyclesFromExports returned or threw
  hookInput,                 \* the hook sets loadApp merges (loader.ts:327)
  hookResult,                \* a merged hook list and the hooks execHooksChain invoked
  g_history,                 \* window.g_history and the closure of its listener patch
  microApps,                 \* loadMicroApp's two maps, and the parcels it made for one name and container
  styleNode                  \* per <style> element: its content and ScopedCSS's marks on it

configVars == <<singular, singularIsFunction, app, mayReject, sandbox, legacyRender,
                windowProxy>>
gateVars == <<awaiting, prevAppUnmountedDeferred, deferredResolved, blockers>>
elementVars == <<initialAppWrapperElement, appWrapperElement, dom, tornDown>>
parcelVars == <<parcel, bootstrapCalls, nReloads>>
channelVars == <<deps, notified>>
hostVars == <<containers, wrapperRead, channelVars>>

loaderVars == <<configVars, hostVars, pc, gateVars, elementVars, parcelVars, sandboxContainer,
                trace, nMounts>>

legacyVars == <<legacy, nLegacyOps, hostChange>>
proxyVars == <<proxySandbox, activeSandboxCount, nProxyOps>>
sandboxVars == <<rawWindow, legacyVars, proxyVars>>
hookVars == <<hookInput, hookResult>>
apiVars == <<g_history, microApps>>
lifecycleVars == <<lifecycleInput, lifecycleResult, hookVars, apiVars>>

cssVars == <<styleNode>>

vars == <<loaderVars, sandboxVars, lifecycleVars, cssVars>>

\* no window.g_history, no patch of its listen function
NoHistory ==
  [present |-> FALSE, listen |-> "raw", phase |-> "unpatched", listener |-> << >>,
   subscribed |-> {}, viaPatch |-> {}, removed |-> {}, historyListeners |-> << >>,
   historyUnListens |-> << >>, rebuild |-> "none", atFree |-> {}, rebuilt |-> << >>]

\* no call of loadMicroApp yet (part_004:301-302)
NoMicroApps ==
  [loads |-> << >>, appConfigPromiseGetterMap |-> [name |-> 0, xpath |-> 0],
   containerMicroApps |-> << >>, apps |-> << >>]

IdleApis == g_history = NoHistory /\ microApps = NoMicroApps

(***************************************************************************)
(* app.container of each tenant: tenants with an odd index share "c1".     *)
(***************************************************************************)
InitialContainer(t) == IF t % 2 = 1 THEN "c1" ELSE "c2"

(***************************************************************************)
(* sandbox/index.ts: createSandboxContainer                                *)
(***************************************************************************)
BootFreers == [j \in 1..NumBootstrapPatches |-> <<"boot", 0, j>>]
MountFreers(m) == [j \in 1..NumMountPatches |-> <<"mount", m, j>>]

NoContainer == [created |-> FALSE]

Range(seq) == {seq[n] : n \in 1..Len(seq)}

\* a step of mount() or unmount(): what is done, and to which free-handle
NoHandle == <<"none", 0, 0>>
Step(kind, handle) == <<kind, handle>>
StepEach(kind, handles) == [n \in 1..Len(handles) |-> Step(kind, handles[n])]

\* invocation counts: the functions in produced are added with no invocation
Produce(calls, produced) ==
  [f \in DOMAIN calls \cup produced |-> IF f \in DOMAIN calls THEN calls[f] ELSE 0]

\* invocation counts after every function in invoked has been called once
Invoke(calls, invoked) ==
  [f \in DOMAIN calls |-> IF f \in invoked THEN calls[f] + 1 ELSE calls[f]]

\* patchAtBootstrapping(...) installs the bootstrap-point patches
patchAtBootstrapping(c) ==
  [c EXCEPT !.bootstrappingFreers = BootFreers,
            !.bootstrapInstalls = @ + 1,
            !.freeCalls = Produce(@, Range(BootFreers))]

\* patchAtMounting(...) installs the mount-point patches afresh
patchAtMounting(c) ==
  [c EXCEPT !.mountingFreers = MountFreers(c.mountInstalls + 1),
            !.mountInstalls = @ + 1,
            !.freeCalls = Produce(@, Range(MountFreers(c.mountInstalls + 1)))]

\* configuration.sandbox as an object: `true` is the object with no option set
SandboxOptions ==
  [loose : BOOLEAN, strictStyleIsolation : BOOLEAN, experimentalStyleIsolation : BOOLEAN]

DefaultSandbox ==
  [loose |-> FALSE, strictStyleIsolation |-> FALSE, experimentalStyleIsolation |-> FALSE]

\* apis.ts: start() passes the options through autoDowngradeForLowVersionBrowser;
\* singular === false only adds a warning
autoDowngradeForLowVersionBrowser(options, proxy) ==
  IF ~proxy THEN [options EXCEPT !.loose = TRUE] ELSE options

\* loader.ts:306
useLooseSandbox == sandbox.loose

\* loader.ts:282
strictStyleIsolation == sandbox.strictStyleIsolation

\* loader.ts:289, utils.ts: isEnableScopedCSS
isEnableScopedCSS(options) ==
  IF options.strictStyleIsolation THEN FALSE ELSE options.experimentalStyleIsolation

scopedCSS == isEnableScopedCSS(sandbox)

\* sandbox/index.ts:28-37: the class of the sandbox instance
SandboxStrategy(loose) ==
  IF windowProxy
  THEN IF loose THEN "LegacySandbox" ELSE "ProxySandbox"
  ELSE "SnapshotSandbox"

\* sandbox/index.ts:15-51
createSandboxContainer ==
  patchAtBootstrapping(
    [created |-> TRUE,
     strategy |-> SandboxStrategy(useLooseSandbox),
     sandboxRunning |-> TRUE,          \* both proxy sandboxes are constructed running
     bootstrappingFreers |-> << >>,
     mountingFreers |-> << >>,
     sideEffectsRebuilders |-> << >>,
     bootstrapInstalls |-> 0,
     mountInstalls |-> 0,
     mountCalls |-> 0,
     unmountCalls |-> 0,
     rebuilt |-> << >>,
     steps |-> << >>,                  \* the steps of the latest mount() or unmount()
     freeCalls |-> << >>,              \* free-handle |-> times invoked
     rebuildCalls |-> << >>])          \* rebuilder |-> times invoked

\* the rebuilder the latest invocation of free-handle h returned
Rebuilder(c, h) == <<h, c.freeCalls[h]>>

\* a mount() that replays every stored rebuilder before patchAtMounting
MountRebuildingBeforePatch(c) ==
  LET active == [c EXCEPT !.sandboxRunning = TRUE, !.mountCalls = @ + 1]
      patched == patchAtMounting(active)
  IN [patched EXCEPT
        !.rebuilt = c.sideEffectsRebuilders,
        !.rebuildCalls = Invoke(@, {Rebuilder(c, h) : h \in Range(c.sideEffectsRebuilders)}),
        !.steps = <<Step("active", NoHandle)>>
                  \o StepEach("rebuild", c.sideEffectsRebuilders)
                  \o <<Step("patchAtMounting", NoHandle)>>,
        !.sideEffectsRebuilders = << >>]

\* sandboxContainer.mount(), sandbox/index.ts:57-92
MountActivateAndPatch(c) ==
  LET nb == Len(c.bootstrappingFreers)
      n == Len(c.sideEffectsRebuilders)
      atBootstrapping == SubSeq(c.sideEffectsRebuilders, 1, IF nb < n THEN nb ELSE n)
      atMounting == SubSeq(c.sideEffectsRebuilders, nb + 1, n)
      active == [c EXCEPT !.sandboxRunning = TRUE, !.mountCalls = @ + 1]
      patched == patchAtMounting(active)
  IN [patched EXCEPT
        !.rebuilt = atBootstrapping \o atMounting,
        !.rebuildCalls = Invoke(@, {Rebuilder(c, h) : h \in Range(atBootstrapping \o atMounting)}),
        !.steps = <<Step("active", NoHandle)>>
                  \o StepEach("rebuild", atBootstrapping)
                  \o <<Step("patchAtMounting", NoHandle)>>
                  \o StepEach("rebuild", atMounting),
        !.sideEffectsRebuilders = << >>]

\* a mount that installs the bootstrap-point patches again
ContainerMountRepatch(c) == patchAtBootstrapping(MountActivateAndPatch(c))

ContainerMount(c) == MountActivateAndPatch(c)

\* sandboxContainer.unmount(), sandbox/index.ts:95-101; the stored rebuilder
\* of a free-handle is the one its latest invocation returned
ContainerUnmount(c) ==
  LET freers == c.bootstrappingFreers \o c.mountingFreers
      freed == Invoke(c.freeCalls, Range(freers))
  IN [c EXCEPT
        !.sideEffectsRebuilders = freers,
        !.freeCalls = freed,
        !.rebuildCalls = Produce(@, {<<h, freed[h]>> : h \in Range(freers)}),
        !.steps = StepEach("free", freers) \o <<Step("inactive", NoHandle)>>,
        !.unmountCalls = @ + 1,
        !.sandboxRunning = FALSE]

(***************************************************************************)
(* loader.ts: execHooksChain.  A hook list is given by the outcome of each *)
(* hook; the result is the sequence of hooks invoked with their outcomes.  *)
(***************************************************************************)
Outcomes == IF mayReject THEN {"ok", "reject"} ELSE {"ok"}
HookOutcomes == [1..HooksPerChain -> Outcomes]

\* hooks.reduce((chain, hook) => chain.then(() => hook(app, global)), ...):
\* hook i runs only when the chain up to it is resolved
RECURSIVE ChainFrom(_, _)
ChainFrom(hooks, i) ==
  IF i > Len(hooks) THEN << >>
  ELSE IF hooks[i] = "reject" THEN << <<i, "reject">> >>
  ELSE << <<i, "ok">> >> \o ChainFrom(hooks, i + 1)

\* a chain whose rejection does not stop the later hooks
ExecHooksChainKeepGoing(hooks) == [i \in 1..Len(hooks) |-> <<i, hooks[i]>>]

execHooksChain(hooks) == ChainFrom(hooks, 1)

ChainRejected(ran) == \E i \in 1..Len(ran) : ran[i][2] = "reject"

Tagged(label, ran) == [i \in 1..Len(ran) |-> <<label, ran[i][1], ran[i][2]>>]

(***************************************************************************)
(* globalState.ts: the state channel.  deps holds at most one listener per *)
(* instance id.                                                            *)
(***************************************************************************)
\* an offGlobalStateChange that drops every listener
OffDroppingAll(d, id) == [i \in DOMAIN d |-> NoListener]

\* globalState.ts:110-113: delete deps[id]
offGlobalStateChange(d, id) == [d EXCEPT ![id] = NoListener]

\* globalState.ts:45-59: deps[id] = callback
onGlobalStateChange(d, id, callback) == [d EXCEPT ![id] = callback]

\* globalState.ts:13-19: the callbacks emitGlobal invokes
emitGlobal(d) == {d[id] : id \in {i \in DOMAIN d : d[i] # NoListener}}

(***************************************************************************)
(* loader.ts: getRender, default container-injection renderer              *)
(***************************************************************************)
\* a renderer that tolerates an absent container in every phase
RenderNeverThrows(container, phase) == FALSE

\* loader.ts:30-38, 160-175: assertElementExist(containerElement, errorMsg)
\* throws QiankunError in every phase but 'unmounted'
RenderThrows(container, phase) ==
  ~legacyRender /\ container \notin containers /\ phase # "unmounted"

render(d, element, container) ==
  IF legacyRender
  THEN d   \* the app's own render callback is called; the containers are not touched
  ELSE IF container \notin containers
  THEN d   \* getContainer() found no element: nothing to clear or to append to
  ELSE IF element \notin d[container]
  THEN [d EXCEPT ![container] = IF element = Null THEN {} ELSE {element}]
  ELSE d

(***************************************************************************)
(* apis.ts: loadMicroApp                                                   *)
(***************************************************************************)
parcelConfigGetter(remountContainer) ==
  [bootstrap |-> "tenant", remountContainer |-> remountContainer]

\* a wrapper that keeps the tenant's bootstrap hook
WrapKeepBootstrap(config) == config

wrapParcelConfigForRemount(config) == [config EXCEPT !.bootstrap = "empty"]

(***************************************************************************)
(* Positions                                                               *)
(***************************************************************************)
MountingPcs == {"m_wait", "m_waiting", "m_elem", "m_render", "m_sandbox",
                "m_beforeMount", "m_mount", "m_rendered", "m_afterMount", "m_arm"}
UnmountingPcs == {"u_beforeUnmount", "u_unmount", "u_sandbox", "u_afterUnmount",
                  "u_detach", "u_resolve"}
\* the tenant's mount hook has been invoked and its unmount pipeline has not completed
ActivePcs == {"m_rendered", "m_afterMount", "m_arm", "mounted"} \cup UnmountingPcs
\* the mount pipeline has completed and the unmount pipeline has not
MountedPcs == {"mounted"} \cup UnmountingPcs
\* sandbox activation has been invoked by the current mount pipeline
PastActivationPcs == {"m_beforeMount", "m_mount", "m_rendered", "m_afterMount", "m_arm"}

\* a validateSingularMode that takes a function for a truthy value
ValidateAsTruthy(t) == IF singularIsFunction THEN TRUE ELSE singular

\* loader.ts:50-52
validateSingularMode(t) == IF singularIsFunction THEN app[t] ELSE singular

TotalMounts == LET RECURSIVE Sum(_)
                   Sum(n) == IF n = 0 THEN 0 ELSE nMounts[n] + Sum(n - 1)
               IN Sum(NumTenants)

\* the state before any loadApp call; the tenants outside `live` are never loaded.
\* start(opts) has stored autoDowngradeForLowVersionBrowser(opts).
InitLoaderWith(live, singularModes, validators, rejecting, options, renders, proxies) ==
  /\ singular \in singularModes
  /\ singularIsFunction \in validators
  /\ app \in IF singularIsFunction THEN [Tenants -> BOOLEAN] ELSE {[t \in Tenants |-> FALSE]}
  /\ mayReject = rejecting
  /\ windowProxy \in proxies
  /\ \E opts \in options : sandbox = autoDowngradeForLowVersionBrowser(opts, windowProxy)
  /\ legacyRender \in renders
  /\ pc = [t \in Tenants |-> IF t \in live THEN "notLoaded" ELSE "absent"]
  /\ awaiting = [t \in Tenants |-> NoDeferred]
  /\ prevAppUnmountedDeferred = NoDeferred
  /\ deferredResolved = {}
  /\ initialAppWrapperElement = [t \in Tenants |-> Null]
  /\ appWrapperElement = [t \in Tenants |-> Null]
  /\ parcel = [t \in Tenants |-> parcelConfigGetter(InitialContainer(t))]
  /\ dom = [c \in Containers |-> {}]
  /\ containers = Containers
  /\ wrapperRead = [t \in Tenants |-> NotRead]
  /\ deps = [t \in Tenants |-> NoListener]
  /\ notified = {}
  /\ tornDown = {}
  /\ sandboxContainer = [t \in Tenants |-> NoContainer]
  /\ bootstrapCalls = [t \in Tenants |-> 0]
  /\ trace = [t \in Tenants |-> << >>]
  /\ blockers = [t \in Tenants |-> {}]
  /\ nMounts = [t \in Tenants |-> 0]
  /\ nReloads = 0

\* the default configuration: sandbox: true, a container instead of a render
\* callback, a host with window.Proxy
InitLoader(live, singularModes, rejecting) ==
  InitLoaderWith(live, singularModes, {FALSE}, rejecting, {DefaultSandbox}, {FALSE}, {TRUE})

Goto(t, label) == pc' = [pc EXCEPT ![t] = label]
Log(t, entries) == trace' = [trace EXCEPT ![t] = @ \o entries]

(***************************************************************************)
(* loadApp                                                                 *)
(***************************************************************************)
\* loader.ts:267-276
LoadBegin(t) ==
  /\ pc[t] = "notLoaded"
  /\ Goto(t, "loading")
  /\ awaiting' = [awaiting EXCEPT ![t] =
                    IF validateSingularMode(t) THEN prevAppUnmountedDeferred ELSE NoDeferred]
  /\ UNCHANGED <<sandboxVars, lifecycleVars, cssVars, configVars, hostVars, prevAppUnmountedDeferred,
                 deferredResolved, blockers, elementVars, parcelVars,
                 sandboxContainer, trace, nMounts>>

\* loader.ts:279-344 and the first parcelConfigGetter call
LoadFinish(t) ==
  /\ pc[t] = "loading"
  /\ awaiting[t] = NoDeferred \/ awaiting[t] \in deferredResolved
  /\ awaiting' = [awaiting EXCEPT ![t] = NoDeferred]
  /\ IF RenderThrows(InitialContainer(t), "loading")
     THEN \* loadApp rejects at loader.ts:297 with the element it made attached nowhere
          /\ Goto(t, "broken")
          /\ Log(t, << <<"load", 0, "QiankunError">> >>)
          /\ UNCHANGED <<initialAppWrapperElement, dom, sandboxContainer, parcel,
                         appWrapperElement>>
     ELSE /\ LET element == <<t, 0>> IN
               /\ initialAppWrapperElement' =
                    [initialAppWrapperElement EXCEPT ![t] = element]
               /\ dom' = render(dom, element, InitialContainer(t))
          /\ sandboxContainer' = [sandboxContainer EXCEPT ![t] = createSandboxContainer]
          /\ parcel' = [parcel EXCEPT ![t] = parcelConfigGetter(InitialContainer(t))]
          /\ appWrapperElement' = [appWrapperElement EXCEPT ![t] = Null]
          /\ Goto(t, "notBootstrapped")
          /\ UNCHANGED trace
  /\ UNCHANGED <<sandboxVars, lifecycleVars, cssVars, configVars, hostVars,
                 prevAppUnmountedDeferred, deferredResolved, blockers, tornDown,
                 bootstrapCalls, nReloads, nMounts>>

\* apis.ts:360-388: a later loadMicroApp call served from appConfigPromiseGetterMap
Reload(t, c) ==
  /\ pc[t] = "notMounted"
  /\ nReloads < MaxReloads
  /\ nReloads' = nReloads + 1
  /\ parcel' = [parcel EXCEPT ![t] = wrapParcelConfigForRemount(parcelConfigGetter(c))]
  /\ appWrapperElement' = [appWrapperElement EXCEPT ![t] = Null]
  /\ Goto(t, "notBootstrapped")
  /\ UNCHANGED <<sandboxVars, lifecycleVars, cssVars, configVars, hostVars, gateVars,
                 initialAppWrapperElement, dom, tornDown, bootstrapCalls,
                 sandboxContainer, trace, nMounts>>

\* the registration layer calls the parcel config's bootstrap once per parcel
Bootstrap(t) ==
  /\ pc[t] = "notBootstrapped"
  /\ bootstrapCalls' = [bootstrapCalls EXCEPT ![t] =
                          IF parcel[t].bootstrap = "tenant" THEN @ + 1 ELSE @]
  /\ Goto(t, "notMounted")
  /\ UNCHANGED <<sandboxVars, lifecycleVars, cssVars, configVars, hostVars, gateVars, elementVars,
                 parcel, nReloads, sandboxContainer, trace, nMounts>>

(***************************************************************************)
(* The mount pipeline, loader.ts:351-406                                   *)
(***************************************************************************)
StartMount(t) ==
  /\ pc[t] = "notMounted"
  /\ TotalMounts < MaxMounts
  /\ nMounts' = [nMounts EXCEPT ![t] = @ + 1]
  /\ Goto(t, "m_wait")
  /\ trace' = [trace EXCEPT ![t] = << >>]
  /\ blockers' = [blockers EXCEPT ![t] = {a \in Tenants \ {t} : pc[a] \in MountedPcs}]
  /\ UNCHANGED <<sandboxVars, lifecycleVars, cssVars, configVars, hostVars, awaiting,
                 prevAppUnmountedDeferred, deferredResolved, elementVars,
                 parcelVars, sandboxContainer>>

\* loader.ts:361-367
MountWait(t) ==
  /\ pc[t] = "m_wait"
  /\ IF validateSingularMode(t) /\ prevAppUnmountedDeferred # NoDeferred
     THEN /\ awaiting' = [awaiting EXCEPT ![t] = prevAppUnmountedDeferred]
          /\ Goto(t, "m_waiting")
          /\ UNCHANGED trace
     ELSE /\ UNCHANGED awaiting
          /\ Goto(t, "m_elem")
          /\ Log(t, << <<"wait", 0, "ok">> >>)
  /\ UNCHANGED <<sandboxVars, lifecycleVars, cssVars, configVars, hostVars, prevAppUnmountedDeferred,
                 deferredResolved, blockers, elementVars, parcelVars,
                 sandboxContainer, nMounts>>

\* the promise returned at loader.ts:363 settles
MountWaitDone(t) ==
  /\ pc[t] = "m_waiting"
  /\ awaiting[t] \in deferredResolved
  /\ awaiting' = [awaiting EXCEPT ![t] = NoDeferred]
  /\ Goto(t, "m_elem")
  /\ Log(t, << <<"wait", 0, "ok">> >>)
  /\ UNCHANGED <<sandboxVars, lifecycleVars, cssVars, configVars, hostVars, prevAppUnmountedDeferred,
                 deferredResolved, blockers, elementVars, parcelVars,
                 sandboxContainer, nMounts>>

\* loader.ts:369-372
MountInitElement(t) ==
  /\ pc[t] = "m_elem"
  /\ appWrapperElement' = [appWrapperElement EXCEPT ![t] = initialAppWrapperElement[t]]
  /\ Goto(t, "m_render")
  /\ Log(t, << <<"element", 0, "ok">> >>)
  /\ UNCHANGED <<sandboxVars, lifecycleVars, cssVars, configVars, hostVars, gateVars,
                 initialAppWrapperElement, dom, tornDown, parcelVars,
                 sandboxContainer, nMounts>>

\* loader.ts:376-377
UseNewContainer(t) == parcel[t].remountContainer # InitialContainer(t)

NeedsNewElement(t) == UseNewContainer(t) \/ appWrapperElement[t] = Null

\* loader.ts:375-384
MountRender(t) ==
  /\ pc[t] = "m_render"
  /\ LET element == IF NeedsNewElement(t) THEN <<t, nMounts[t]>> ELSE appWrapperElement[t] IN
       /\ appWrapperElement' = [appWrapperElement EXCEPT ![t] = element]
       /\ initialAppWrapperElement' =
            IF NeedsNewElement(t)
            THEN [initialAppWrapperElement EXCEPT ![t] = element]
            ELSE initialAppWrapperElement
       /\ dom' = render(dom, element, parcel[t].remountContainer)
  /\ IF RenderThrows(parcel[t].remountContainer, "mounting")
     THEN Goto(t, "broken") /\ Log(t, << <<"render", 0, "QiankunError">> >>)
     ELSE Goto(t, "m_sandbox") /\ Log(t, << <<"render", 0, "ok">> >>)
  /\ UNCHANGED <<sandboxVars, lifecycleVars, cssVars, configVars, hostVars, gateVars, tornDown,
                 parcelVars, sandboxContainer, nMounts>>

\* loader.ts:385
MountSandbox(t) ==
  /\ pc[t] = "m_sandbox"
  /\ sandboxContainer' = [sandboxContainer EXCEPT ![t] = ContainerMount(@)]
  /\ Goto(t, "m_beforeMount")
  /\ Log(t, << <<"sandbox", 0, "ok">> >>)
  /\ UNCHANGED <<sandboxVars, lifecycleVars, cssVars, configVars, hostVars, gateVars, elementVars,
                 parcelVars, nMounts>>

\* a pipeline step that runs a hook list: loader.ts:387, 392, 408, 411
HookStep(t, from, label, to) ==
  /\ pc[t] = from
  /\ \E hooks \in HookOutcomes :
       LET ran == execHooksChain(hooks) IN
         /\ Log(t, Tagged(label, ran))
         /\ Goto(t, IF ChainRejected(ran) THEN "broken" ELSE to)
  /\ UNCHANGED <<sandboxVars, lifecycleVars, cssVars, configVars, hostVars, gateVars, elementVars,
                 parcelVars, sandboxContainer, nMounts>>

\* loader.ts:113-134: the wrapper getter throws QiankunError when a render
\* callback is combined with a style isolation
appWrapperGetterThrows == legacyRender /\ (strictStyleIsolation \/ scopedCSS)

\* loader.ts:126-127: with the default renderer the getter asserts that the
\* element elementGetter() returns exists
WrapperGetterThrows(element) ==
  appWrapperGetterThrows \/ (~legacyRender /\ element = Null)

\* a pipeline step that invokes one tenant hook: loader.ts:388, 409.  The
\* hook's argument is built first: container: appWrapperGetter().
TenantHookStep(t, from, label, to) ==
  /\ pc[t] = from
  /\ IF WrapperGetterThrows(appWrapperElement[t])
     THEN /\ Log(t, << <<label, 0, "QiankunError">> >>)
          /\ Goto(t, "broken")
     ELSE \E outcome \in Outcomes :
            /\ Log(t, << <<label, 0, outcome>> >>)
            /\ Goto(t, IF outcome = "reject" THEN "broken" ELSE to)
  /\ UNCHANGED <<sandboxVars, lifecycleVars, cssVars, configVars, hostVars, gateVars, elementVars,
                 parcelVars, sandboxContainer, nMounts>>

\* a beforeMount step that hands over to the step after the tenant's mount hook
BeforeMountSkippingMount(t) == HookStep(t, "m_beforeMount", "beforeMount", "m_rendered")

MountBeforeHooks(t) == HookStep(t, "m_beforeMount", "beforeMount", "m_mount")

MountHook(t) == TenantHookStep(t, "m_mount", "mount", "m_rendered")

\* loader.ts:391
MountRendered(t) ==
  /\ pc[t] = "m_rendered"
  /\ dom' = render(dom, appWrapperElement[t], parcel[t].remountContainer)
  /\ IF RenderThrows(parcel[t].remountContainer, "mounted")
     THEN Goto(t, "broken") /\ Log(t, << <<"rendered", 0, "QiankunError">> >>)
     ELSE Goto(t, "m_afterMount") /\ Log(t, << <<"rendered", 0, "ok">> >>)
  /\ UNCHANGED <<sandboxVars, lifecycleVars, cssVars, configVars, hostVars, gateVars,
                 initialAppWrapperElement, appWrapperElement, tornDown, parcelVars,
                 sandboxContainer, nMounts>>

MountAfterHooks(t) == HookStep(t, "m_afterMount", "afterMount", "m_arm")

\* loader.ts:395-399
MountArm(t) ==
  /\ pc[t] = "m_arm"
  /\ prevAppUnmountedDeferred' =
       IF validateSingularMode(t) THEN <<t, nMounts[t]>> ELSE prevAppUnmountedDeferred
  /\ Goto(t, "mounted")
  /\ Log(t, << <<"arm", 0, "ok">> >>)
  /\ UNCHANGED <<sandboxVars, lifecycleVars, cssVars, configVars, hostVars, awaiting,
                 deferredResolved, blockers, elementVars, parcelVars,
                 sandboxContainer, nMounts>>

(***************************************************************************)
(* The unmount pipeline, loader.ts:407-424                                 *)
(***************************************************************************)
StartUnmount(t) ==
  /\ pc[t] = "mounted"
  /\ Goto(t, "u_beforeUnmount")
  /\ trace' = [trace EXCEPT ![t] = << >>]
  /\ UNCHANGED <<sandboxVars, lifecycleVars, cssVars, configVars, hostVars, gateVars, elementVars,
                 parcelVars, sandboxContainer, nMounts>>

UnmountBeforeHooks(t) == HookStep(t, "u_beforeUnmount", "beforeUnmount", "u_unmount")

\* an unmount hook that hands over to the step after the sandbox's deactivation
UnmountHookSkippingSandbox(t) == TenantHookStep(t, "u_unmount", "unmount", "u_afterUnmount")

UnmountHook(t) == TenantHookStep(t, "u_unmount", "unmount", "u_sandbox")

\* loader.ts:410
UnmountSandbox(t) ==
  /\ pc[t] = "u_sandbox"
  /\ sandboxContainer' = [sandboxContainer EXCEPT ![t] = ContainerUnmount(@)]
  /\ Goto(t, "u_afterUnmount")
  /\ Log(t, << <<"sandbox", 0, "ok">> >>)
  /\ UNCHANGED <<sandboxVars, lifecycleVars, cssVars, configVars, hostVars, gateVars, elementVars,
                 parcelVars, nMounts>>

UnmountAfterHooks(t) == HookStep(t, "u_afterUnmount", "afterUnmount", "u_detach")

\* loader.ts:412-418
UnmountDetach(t) ==
  /\ pc[t] = "u_detach"
  /\ dom' = render(dom, Null, parcel[t].remountContainer)
  /\ deps' = offGlobalStateChange(deps, t)
  /\ tornDown' = tornDown \cup ({appWrapperElement[t]} \ {Null})
  /\ appWrapperElement' = [appWrapperElement EXCEPT ![t] = Null]
  /\ initialAppWrapperElement' = [initialAppWrapperElement EXCEPT ![t] = Null]
  /\ Goto(t, "u_resolve")
  /\ Log(t, << <<"detach", 0, "ok">>, <<"offGlobalStateChange", 0, "ok">> >>)
  /\ UNCHANGED <<sandboxVars, lifecycleVars, cssVars, configVars, containers, wrapperRead,
                 notified, gateVars, parcelVars, sandboxContainer, nMounts>>

\* loader.ts:419-423
UnmountResolve(t) ==
  /\ pc[t] = "u_resolve"
  /\ deferredResolved' =
       IF validateSingularMode(t) /\ prevAppUnmountedDeferred # NoDeferred
       THEN deferredResolved \cup {prevAppUnmountedDeferred}
       ELSE deferredResolved
  /\ blockers' = [b \in Tenants |-> blockers[b] \ {t}]
  /\ Goto(t, "notMounted")
  /\ Log(t, << <<"resolve", 0, "ok">> >>)
  /\ UNCHANGED <<sandboxVars, lifecycleVars, cssVars, configVars, hostVars, awaiting,
                 prevAppUnmountedDeferred, elementVars, parcelVars,
                 sandboxContainer, nMounts>>

\* the steps of tenant t's pipelines that the event loop runs by itself
PipelineStep(t) ==
  \/ LoadFinish(t)
  \/ MountWait(t)
  \/ MountWaitDone(t)
  \/ MountInitElement(t)
  \/ MountRender(t)
  \/ MountSandbox(t)
  \/ MountBeforeHooks(t)
  \/ MountHook(t)
  \/ MountRendered(t)
  \/ MountAfterHooks(t)
  \/ MountArm(t)
  \/ UnmountBeforeHooks(t)
  \/ UnmountHook(t)
  \/ UnmountSandbox(t)
  \/ UnmountAfterHooks(t)
  \/ UnmountDetach(t)
  \/ UnmountResolve(t)

NextLoader ==
  \E t \in Tenants :
    \/ LoadBegin(t)
    \/ \E c \in Containers : Reload(t, c)
    \/ Bootstrap(t)
    \/ StartMount(t)
    \/ StartUnmount(t)
    \/ PipelineStep(t)

(***************************************************************************)
(* What the host page and the tenants' code do around the pipelines        *)
(***************************************************************************)
HostFrame ==
  UNCHANGED <<configVars, pc, gateVars, initialAppWrapperElement, appWrapperElement,
              tornDown, parcelVars, sandboxContainer, trace, nMounts, sandboxVars,
              lifecycleVars, cssVars>>

\* the host page takes a container element out of the document, e.g. a
\* component of the host unmounting; its children leave the document with it
ContainerRemoved(c) ==
  /\ c \in containers
  /\ containers' = containers \ {c}
  /\ dom' = [dom EXCEPT ![c] = {}]
  /\ UNCHANGED <<wrapperRead, channelVars>>
  /\ HostFrame

\* the host page puts a new, empty container element into the document
ContainerInserted(c) ==
  /\ c \notin containers
  /\ containers' = containers \cup {c}
  /\ UNCHANGED <<dom, wrapperRead, channelVars>>
  /\ HostFrame

\* the tenant's sandbox calls initialAppWrapperGetter (loader.ts:299, 314),
\* e.g. to place a style the tenant's code appends
SandboxReadsWrapper(t) ==
  /\ sandboxContainer[t].created
  /\ LET result == IF WrapperGetterThrows(initialAppWrapperElement[t])
                   THEN "QiankunError" ELSE "element"
     IN /\ wrapperRead[t] # result
        /\ wrapperRead' = [wrapperRead EXCEPT ![t] = result]
  /\ UNCHANGED <<dom, containers, channelVars>>
  /\ HostFrame

\* the positions at which the tenant's own code runs: from its mount hook to
\* its unmount hook
TenantCodePcs ==
  {"m_mount", "m_rendered", "m_afterMount", "m_arm", "mounted", "u_beforeUnmount",
   "u_unmount"}

\* the tenant's code calls the onGlobalStateChange of its mount props (loader.ts:388)
TenantListens(t) ==
  /\ pc[t] \in TenantCodePcs
  /\ deps[t] # <<t, nMounts[t]>>
  /\ deps' = onGlobalStateChange(deps, t, <<t, nMounts[t]>>)
  /\ UNCHANGED <<dom, containers, wrapperRead, notified>>
  /\ HostFrame

\* any party calls setGlobalState with a changed key (globalState.ts:68-107)
SetGlobalState ==
  /\ notified # emitGlobal(deps)
  /\ notified' = emitGlobal(deps)
  /\ UNCHANGED <<dom, containers, wrapperRead, deps>>
  /\ HostFrame

\* the pipelines over a document whose containers come and go
NextRender ==
  \/ NextLoader
  \/ \E c \in Containers : ContainerRemoved(c)
  \/ \E c \in Containers : ContainerInserted(c)
  \/ \E t \in Tenants : SandboxReadsWrapper(t)

\* the pipelines of tenants that use the state channel
NextStateChannel ==
  \/ NextLoader
  \/ \E t \in Tenants : TenantListens(t)
  \/ SetGlobalState

\* the host changes the state of tenant t's descriptor that the singular
\* function reads
AppChanges(t) ==
  /\ singularIsFunction
  /\ pc[t] # "absent"
  /\ app' = [app EXCEPT ![t] = ~@]
  /\ UNCHANGED <<singular, singularIsFunction, mayReject, sandbox, legacyRender, windowProxy,
                 hostVars, pc, gateVars, elementVars, parcelVars, sandboxContainer, trace, nMounts,
                 sandboxVars, lifecycleVars, cssVars>>

NextSingularFunction ==
  \/ NextLoader
  \/ \E t \in Tenants : AppChanges(t)

(***************************************************************************)
(* Sandbox containers driven directly: any caller may invoke mount() and   *)
(* unmount() of a created container in any order.                          *)
(***************************************************************************)
\* what a call on a sandbox container leaves alone
ContainerFrame ==
  UNCHANGED <<configVars, hostVars, pc, gateVars, elementVars, parcelVars, trace, nMounts,
              sandboxVars, lifecycleVars, cssVars>>

CreateContainer(t) ==
  /\ ~sandboxContainer[t].created
  /\ sandboxContainer' = [sandboxContainer EXCEPT ![t] = createSandboxContainer]
  /\ ContainerFrame

MountContainer(t) ==
  /\ sandboxContainer[t].created
  /\ sandboxContainer[t].mountCalls < MaxCycles
  /\ sandboxContainer' = [sandboxContainer EXCEPT ![t] = ContainerMount(@)]
  /\ ContainerFrame

UnmountContainer(t) ==
  /\ sandboxContainer[t].created
  /\ sandboxContainer[t].unmountCalls < MaxCycles
  /\ sandboxContainer' = [sandboxContainer EXCEPT ![t] = ContainerUnmount(@)]
  /\ ContainerFrame

NextContainer ==
  \E t \in Tenants :
    \/ CreateContainer(t)
    \/ MountContainer(t)
    \/ UnmountContainer(t)

(***************************************************************************)
(* The host global object and the object operations the sandboxes apply to *)
(* it (sandbox code is strict-mode code).  An object maps every key to a   *)
(* property descriptor; reading a getter yields the descriptor's value.    *)
(***************************************************************************)
Undefined == 0

NullKey == "<null>"

Absent ==
  [present |-> FALSE, value |-> Undefined, writable |-> FALSE, configurable |-> FALSE,
   getter |-> FALSE, setter |-> FALSE]

Data(v, w, c) ==
  [present |-> TRUE, value |-> v, writable |-> w, configurable |-> c,
   getter |-> FALSE, setter |-> FALSE]

Accessor(v, c, s) ==
  [present |-> TRUE, value |-> v, writable |-> FALSE, configurable |-> c,
   getter |-> TRUE, setter |-> s]

\* obj.hasOwnProperty(p)
HasOwn(obj, p) == obj[p].present

\* obj[p]
Read(obj, p) == obj[p].value

\* obj[p] = v
Assign(obj, p, v) ==
  IF ~obj[p].present THEN [obj |-> [obj EXCEPT ![p] = Data(v, TRUE, TRUE)], threw |-> FALSE]
  ELSE IF obj[p].getter THEN [obj |-> obj, threw |-> ~obj[p].setter]
  ELSE IF obj[p].writable THEN [obj |-> [obj EXCEPT ![p].value = v], threw |-> FALSE]
  ELSE [obj |-> obj, threw |-> TRUE]

\* Reflect.defineProperty(obj, p, attributes), attributes a complete data descriptor
DefineOwn(obj, p, attributes) ==
  LET cur == obj[p] IN
    IF ~cur.present \/ cur.configurable
    THEN [obj |-> [obj EXCEPT ![p] = attributes], done |-> TRUE]
    ELSE IF attributes.configurable \/ cur.getter
    THEN [obj |-> obj, done |-> FALSE]
    ELSE IF cur.writable
    THEN [obj |-> [obj EXCEPT ![p] = attributes], done |-> TRUE]
    ELSE [obj |-> obj,
          done |-> ~attributes.writable /\ attributes.value = cur.value]

\* Object.defineProperty(obj, p, { writable: true, configurable: true }) on a
\* property that is absent or configurable
MakeWritable(obj, p) ==
  IF ~obj[p].present THEN [obj EXCEPT ![p] = Data(Undefined, TRUE, TRUE)]
  ELSE IF obj[p].getter THEN [obj EXCEPT ![p] = Data(Undefined, TRUE, TRUE)]
  ELSE [obj EXCEPT ![p].writable = TRUE, ![p].configurable = TRUE]

\* delete obj[p]
Delete(obj, p) ==
  IF ~obj[p].present THEN [obj |-> obj, threw |-> FALSE]
  ELSE IF obj[p].configurable THEN [obj |-> [obj EXCEPT ![p] = Absent], threw |-> FALSE]
  ELSE [obj |-> obj, threw |-> TRUE]

\* a Map in insertion order: a sequence of <<key, value>>
MapHas(m, k) == \E i \in 1..Len(m) : m[i][1] = k

MapSet(m, k, v) ==
  IF MapHas(m, k)
  THEN [i \in 1..Len(m) |-> IF m[i][1] = k THEN <<k, v>> ELSE m[i]]
  ELSE Append(m, <<k, v>>)

\* m.get(k) for a key the map has
MapGet(m, k) == m[CHOOSE n \in 1..Len(m) : m[n][1] = k][2]

(***************************************************************************)
(* The exclusive-instance sandbox (LegacySandbox)                          *)
(***************************************************************************)
\* keys of the host global object, by what the host holds before the sandbox
\* is constructed
LegacyInitialWindow ==
  [fresh |-> Absent,                     \* not a host key
   plain |-> Data(1, TRUE, TRUE),        \* an ordinary host key
   declared |-> Data(1, TRUE, FALSE),    \* a global declared with var
   fixed |-> Data(1, FALSE, TRUE),       \* a read-only host key
   symbol |-> Data(1, TRUE, TRUE)]       \* a host key that is a symbol

LegacyKeys == DOMAIN LegacyInitialWindow

SymbolKeys == {"symbol"}

TenantValues == {2, 3}

DataDescriptors ==
  {Data(v, w, c) : v \in TenantValues, w \in BOOLEAN, c \in BOOLEAN}

NoLegacySandbox ==
  [addedPropsMapInSandbox |-> << >>,
   modifiedPropsOriginalValueMapInSandbox |-> << >>,
   currentUpdatedPropsValueMap |-> << >>,
   sandboxRunning |-> FALSE,
   latestSetProp |-> NullKey]

\* the fields after the constructor
NewLegacySandbox == [NoLegacySandbox EXCEPT !.sandboxRunning = TRUE]

isPropConfigurable(target, prop) ==
  IF target[prop].present THEN target[prop].configurable ELSE TRUE

setWindowProp(host, prop, value, toDelete) ==
  IF value = Undefined /\ toDelete THEN Delete(host, prop)
  ELSE IF isPropConfigurable(host, prop) /\ prop \notin SymbolKeys
  THEN Assign(MakeWritable(host, prop), prop, value)
  ELSE [obj |-> host, threw |-> FALSE]

\* map.forEach((v, p) => this.setWindowProp(p, deleting ? undefined : v, deleting)),
\* abandoned at the first call that throws
RECURSIVE ForEachSetWindowProp(_, _, _, _)
ForEachSetWindowProp(host, m, i, deleting) ==
  IF i > Len(m) THEN [obj |-> host, threw |-> FALSE]
  ELSE LET r == setWindowProp(host, m[i][1], IF deleting THEN Undefined ELSE m[i][2],
                              deleting)
       IN IF r.threw THEN r ELSE ForEachSetWindowProp(r.obj, m, i + 1, deleting)

setTrap(sb, host, p, value, originalValue, sync2Window) ==
  IF sb.sandboxRunning
  THEN LET w == IF sync2Window THEN Assign(host, p, value)
                ELSE [obj |-> host, threw |-> FALSE]
       IN [sandbox |->
             [sb EXCEPT
                !.addedPropsMapInSandbox =
                   IF ~HasOwn(host, p) THEN MapSet(@, p, value) ELSE @,
                !.modifiedPropsOriginalValueMapInSandbox =
                   IF HasOwn(host, p) /\ ~MapHas(@, p) THEN MapSet(@, p, originalValue)
                   ELSE @,
                !.currentUpdatedPropsValueMap = MapSet(@, p, value),
                !.latestSetProp = IF w.threw THEN @ ELSE p],
           host |-> w.obj,
           threw |-> w.threw]
  ELSE [sandbox |-> sb, host |-> host, threw |-> FALSE]

\* an active() that only sets the running flag
ActivatedWithoutReplay(sb, host) ==
  [sandbox |-> [sb EXCEPT !.sandboxRunning = TRUE], host |-> host]

\* LegacySandbox.active()
LegacyActivated(sb, host) ==
  [sandbox |-> [sb EXCEPT !.sandboxRunning = TRUE],
   host |-> IF sb.sandboxRunning THEN host
            ELSE ForEachSetWindowProp(host, sb.currentUpdatedPropsValueMap, 1, FALSE).obj]

\* LegacySandbox.inactive()
LegacyInactivated(sb, host) ==
  LET restored == ForEachSetWindowProp(host, sb.modifiedPropsOriginalValueMapInSandbox,
                                       1, FALSE)
      deleted == IF restored.threw THEN restored
                 ELSE ForEachSetWindowProp(restored.obj, sb.addedPropsMapInSandbox, 1, TRUE)
  IN [sandbox |-> IF deleted.threw THEN sb ELSE [sb EXCEPT !.sandboxRunning = FALSE],
      host |-> deleted.obj,
      threw |-> deleted.threw]

\* proxy[p] = value
LegacySet(p, value) ==
  /\ nLegacyOps < MaxLegacyOps
  /\ LET r == setTrap(legacy, rawWindow, p, value, Read(rawWindow, p), TRUE) IN
       /\ legacy' = r.sandbox
       /\ rawWindow' = r.host
  /\ nLegacyOps' = nLegacyOps + 1
  /\ UNCHANGED <<hostChange, loaderVars, proxyVars, lifecycleVars, cssVars>>

\* Reflect.defineProperty(proxy, p, attributes)
LegacyDefineProperty(p, attributes) ==
  /\ nLegacyOps < MaxLegacyOps
  /\ LET defined == DefineOwn(rawWindow, p, attributes)
         r == setTrap(legacy, defined.obj, p, Read(defined.obj, p), Read(rawWindow, p),
                      FALSE)
     IN /\ legacy' = r.sandbox
        /\ rawWindow' = r.host
  /\ nLegacyOps' = nLegacyOps + 1
  /\ UNCHANGED <<hostChange, loaderVars, proxyVars, lifecycleVars, cssVars>>

\* the keys the host assigned: `now` while the sandbox is inactive, `before`
\* the activation window that is open or was closed last
NoHostChange == [now |-> {}, before |-> {}]

LegacyActive ==
  /\ legacy' = LegacyActivated(legacy, rawWindow).sandbox
  /\ rawWindow' = LegacyActivated(legacy, rawWindow).host
  /\ hostChange' = IF legacy.sandboxRunning THEN hostChange
                   ELSE [now |-> {}, before |-> hostChange.now]
  /\ UNCHANGED <<nLegacyOps, loaderVars, proxyVars, lifecycleVars, cssVars>>

LegacyInactive ==
  /\ legacy' = LegacyInactivated(legacy, rawWindow).sandbox
  /\ rawWindow' = LegacyInactivated(legacy, rawWindow).host
  /\ UNCHANGED <<hostChange, nLegacyOps, loaderVars, proxyVars, lifecycleVars, cssVars>>

\* what the host's own code assigns to a global key
HostValues == {7}

\* window[p] = value in the host's own code, outside every activation window
\* of the sandbox
HostAssign(p, value) ==
  /\ ~legacy.sandboxRunning
  /\ p \notin hostChange.now
  /\ ~Assign(rawWindow, p, value).threw
  /\ rawWindow' = Assign(rawWindow, p, value).obj
  /\ hostChange' = [now |-> hostChange.now \cup {p}, before |-> hostChange.before \ {p}]
  /\ UNCHANGED <<legacy, nLegacyOps, loaderVars, proxyVars, lifecycleVars, cssVars>>

NextLegacy ==
  \/ \E p \in LegacyKeys, value \in TenantValues : LegacySet(p, value)
  \/ \E p \in LegacyKeys, attributes \in DataDescriptors :
       LegacyDefineProperty(p, attributes)
  \/ LegacyActive
  \/ LegacyInactive

\* a tenant that assigns global keys, and the host's own code
NextLegacyHost ==
  \/ \E p \in LegacyKeys : LegacySet(p, 2)
  \/ LegacyActive
  \/ LegacyInactive
  \/ \E p \in LegacyKeys, value \in HostValues : HostAssign(p, value)

InitLegacy ==
  /\ rawWindow = LegacyInitialWindow
  /\ legacy = NewLegacySandbox
  /\ nLegacyOps = 0
  /\ hostChange = NoHostChange

(***************************************************************************)
(* The virtualized sandbox (ProxySandbox), production build                *)
(***************************************************************************)
\* proxySandbox.ts:27-31
globalVariableWhiteList == {"System", "__cjsWrapper"}

\* proxySandbox.ts:33
inTest == FALSE

\* the window of the page that embeds the host page in an iframe
OuterWindow == 9

\* the host's own window object, what window.window returns
HostWindow(globalContext) == Read(globalContext, "window")

ProxyInitialWindow ==
  [p \in {"fresh", "plain", "declared", "fixed", "NaN", "window", "top", "parent",
          "System", "__cjsWrapper"} |->
     CASE p = "fresh" -> Absent                      \* not a host key
       [] p = "plain" -> Data(1, TRUE, TRUE)         \* an ordinary host key
       [] p = "declared" -> Data(1, TRUE, FALSE)     \* a global declared with var
       [] p = "fixed" -> Data(1, FALSE, TRUE)        \* a read-only host key
       [] p = "NaN" -> Data(1, FALSE, FALSE)         \* a frozen host key (NaN, Infinity)
       [] p = "window" -> Accessor(1, FALSE, FALSE)  \* the host's self reference
       [] p = "top" -> Accessor(1, FALSE, FALSE)     \* the host is the top window
       [] p = "parent" -> Accessor(1, TRUE, TRUE)    \* and so its own parent
       [] p = "System" -> Absent
       [] p = "__cjsWrapper" -> Data(1, TRUE, TRUE)]

\* the same host page inside an iframe
EmbeddedInitialWindow ==
  [ProxyInitialWindow EXCEPT !["top"].value = OuterWindow, !["parent"].value = OuterWindow]

ProxyKeys == DOMAIN ProxyInitialWindow

SelfReferenceKeys == {"window", "self", "globalThis", "top", "parent"}

Sandboxes == 1..NumSandboxes

\* the handle of sandbox i, as a value a read can return
ProxyRef(i) == 100 + i

\* proxySandbox.ts:54-92
createFakeWindow(globalContext) ==
  [fakeWindow |->
     [p \in DOMAIN globalContext |->
        LET descriptor == globalContext[p] IN
          IF ~descriptor.present \/ descriptor.configurable THEN Absent
          ELSE IF p \in {"top", "parent", "self", "window"}
          THEN [descriptor EXCEPT !.configurable = TRUE,
                                  !.writable = IF descriptor.getter THEN @ ELSE TRUE]
          ELSE descriptor],
   propertiesWithGetter |->
     {p \in DOMAIN globalContext :
        globalContext[p].present /\ ~globalContext[p].configurable /\ globalContext[p].getter}]

NoProxySandbox ==
  [created |-> FALSE,
   fakeWindow |-> [p \in ProxyKeys |-> Absent],
   propertiesWithGetter |-> {},
   updatedValueSet |-> {},
   sandboxRunning |-> FALSE,
   latestSetProp |-> NullKey,
   globalWhitelistPrevDescriptor |-> << >>,
   descriptorTargetMap |-> << >>]

\* proxySandbox.ts:146-302, the fields after the constructor
NewProxySandbox(globalContext) ==
  [NoProxySandbox EXCEPT !.created = TRUE,
                         !.fakeWindow = createFakeWindow(globalContext).fakeWindow,
                         !.propertiesWithGetter =
                            createFakeWindow(globalContext).propertiesWithGetter,
                         !.sandboxRunning = TRUE]

\* a whitelist test that accepts every key
InWhiteListAnyKey(p) == TRUE

\* proxySandbox.ts:165
InWhiteList(p) == p \in globalVariableWhiteList

\* a set trap that copies every host key onto the overlay, writable or not
SetTrapIgnoringWritable(sb, globalContext, p, value) ==
  IF ~sb.sandboxRunning \/ InWhiteList(p)
  THEN [sandbox |-> sb, host |-> globalContext, threw |-> FALSE]
  ELSE LET target == sb.fakeWindow
           w == IF ~HasOwn(target, p) /\ HasOwn(globalContext, p)
                THEN [obj |-> [target EXCEPT
                                 ![p] = Data(value, TRUE, globalContext[p].configurable)],
                      threw |-> FALSE]
                ELSE Assign(target, p, value)
       IN [sandbox |-> IF w.threw THEN sb
                       ELSE [sb EXCEPT !.fakeWindow = w.obj,
                                       !.updatedValueSet = @ \cup {p},
                                       !.latestSetProp = p],
           host |-> globalContext,
           threw |-> w.threw]

\* the set trap, proxySandbox.ts:159-194
ProxySetTrap(sb, globalContext, p, value) ==
  IF ~sb.sandboxRunning THEN [sandbox |-> sb, host |-> globalContext, threw |-> FALSE]
  ELSE IF InWhiteList(p)
  THEN LET cached == [sb EXCEPT !.globalWhitelistPrevDescriptor =
                                   MapSet(@, p, globalContext[p])]
           w == Assign(globalContext, p, value)
       IN [sandbox |-> IF w.threw THEN cached
                       ELSE [cached EXCEPT !.updatedValueSet = @ \cup {p},
                                           !.latestSetProp = p],
           host |-> w.obj,
           threw |-> w.threw]
  ELSE LET target == sb.fakeWindow
           w == IF ~HasOwn(target, p) /\ HasOwn(globalContext, p)
                THEN IF globalContext[p].writable \/ globalContext[p].setter
                     THEN [obj |-> [target EXCEPT
                                      ![p] = Data(value, TRUE, globalContext[p].configurable)],
                           threw |-> FALSE]
                     ELSE [obj |-> target, threw |-> FALSE]
                ELSE Assign(target, p, value)
       IN [sandbox |-> IF w.threw THEN sb
                       ELSE [sb EXCEPT !.fakeWindow = w.obj,
                                       !.updatedValueSet = @ \cup {p},
                                       !.latestSetProp = p],
           host |-> globalContext,
           threw |-> w.threw]

\* new Proxy(fakeWindow, { set }): after the trap returned true the engine
\* checks the result against the target and throws TypeError when the target
\* holds p as a non-configurable property that is a non-writable data
\* property of another value or an accessor without a setter
SetInvariantViolated(target, p, value) ==
  /\ HasOwn(target, p)
  /\ ~target[p].configurable
  /\ IF target[p].getter THEN ~target[p].setter
     ELSE ~target[p].writable /\ target[p].value # value

\* proxy[p] = value: the set trap, then the engine's check
ProxyHandleSet(sb, globalContext, p, value) ==
  LET r == ProxySetTrap(sb, globalContext, p, value) IN
    [r EXCEPT !.threw = @ \/ SetInvariantViolated(r.sandbox.fakeWindow, p, value)]

\* a get trap that resolves every key from the overlay, then from the host
GetTrapOverlayFirst(sb, globalContext, i, p) ==
  IF HasOwn(sb.fakeWindow, p) THEN Read(sb.fakeWindow, p) ELSE Read(globalContext, p)

\* the get trap, proxySandbox.ts:196-241, for keys that hold plain values
ProxyGetTrap(sb, globalContext, i, p) ==
  IF p \in {"window", "self", "globalThis"} THEN ProxyRef(i)
  ELSE IF p \in {"top", "parent"}
  THEN IF HostWindow(globalContext) = Read(globalContext, "parent") THEN ProxyRef(i)
       ELSE Read(globalContext, p)
  ELSE IF p = "string" /\ InWhiteList(p) THEN Read(globalContext, p)
  ELSE IF p \in sb.propertiesWithGetter THEN Read(globalContext, p)
  ELSE IF HasOwn(sb.fakeWindow, p) THEN Read(sb.fakeWindow, p)
  ELSE Read(globalContext, p)

\* the deleteProperty trap, proxySandbox.ts:281-292
ProxyDeleteTrap(sb, p) ==
  IF HasOwn(sb.fakeWindow, p)
  THEN LET d == Delete(sb.fakeWindow, p) IN
         IF d.threw THEN sb
         ELSE [sb EXCEPT !.fakeWindow = d.obj, !.updatedValueSet = @ \ {p}]
  ELSE sb

\* the getOwnPropertyDescriptor trap, proxySandbox.ts:247-264: it records
\* where the descriptor it returns comes from
ProxyGetOwnPropertyDescriptorTrap(sb, globalContext, p) ==
  IF HasOwn(sb.fakeWindow, p)
  THEN [sb EXCEPT !.descriptorTargetMap = MapSet(@, p, "target")]
  ELSE IF HasOwn(globalContext, p)
  THEN [sb EXCEPT !.descriptorTargetMap = MapSet(@, p, "globalContext")]
  ELSE sb

\* the defineProperty trap, proxySandbox.ts:271-279
ProxyDefinePropertyTrap(sb, globalContext, p, attributes) ==
  IF MapHas(sb.descriptorTargetMap, p)
     /\ MapGet(sb.descriptorTargetMap, p) = "globalContext"
  THEN [sandbox |-> sb, host |-> DefineOwn(globalContext, p, attributes).obj]
  ELSE [sandbox |-> [sb EXCEPT !.fakeWindow = DefineOwn(sb.fakeWindow, p, attributes).obj],
        host |-> globalContext]

\* Object.keys(this.globalWhitelistPrevDescriptor).forEach(...), proxySandbox.ts:124-132,
\* abandoned at the first call that throws
RECURSIVE RestoreWhitelist(_, _, _)
RestoreWhitelist(globalContext, prev, i) ==
  IF i > Len(prev) THEN [obj |-> globalContext, threw |-> FALSE]
  ELSE LET p == prev[i][1]
           descriptor == prev[i][2]
           defined == DefineOwn(globalContext, p, descriptor)
           r == IF descriptor.present
                THEN [obj |-> defined.obj, threw |-> ~defined.done]
                ELSE Delete(globalContext, p)
       IN IF r.threw THEN r ELSE RestoreWhitelist(r.obj, prev, i + 1)

\* new ProxySandbox(name, globalContext); instances are numbered in creation order
ProxyCreate(i) ==
  /\ ~proxySandbox[i].created
  /\ \A j \in Sandboxes : j < i => proxySandbox[j].created
  /\ proxySandbox' = [proxySandbox EXCEPT ![i] = NewProxySandbox(rawWindow)]
  /\ activeSandboxCount' = activeSandboxCount + 1
  /\ UNCHANGED <<rawWindow, nProxyOps, loaderVars, legacyVars, lifecycleVars, cssVars>>

\* ProxySandbox.active(), proxySandbox.ts:111-114
ProxyActive(i) ==
  /\ proxySandbox[i].created
  /\ activeSandboxCount' =
       IF ~proxySandbox[i].sandboxRunning THEN activeSandboxCount + 1
       ELSE activeSandboxCount
  /\ proxySandbox' = [proxySandbox EXCEPT ![i].sandboxRunning = TRUE]
  /\ UNCHANGED <<rawWindow, nProxyOps, loaderVars, legacyVars, lifecycleVars, cssVars>>

\* ProxySandbox.inactive(), proxySandbox.ts:117-136
ProxyInactive(i) ==
  /\ proxySandbox[i].created
  /\ activeSandboxCount > -MaxUnderflow
  /\ activeSandboxCount' = activeSandboxCount - 1
  /\ LET restored ==
           IF inTest \/ activeSandboxCount - 1 = 0
           THEN RestoreWhitelist(rawWindow, proxySandbox[i].globalWhitelistPrevDescriptor, 1)
           ELSE [obj |-> rawWindow, threw |-> FALSE]
     IN /\ rawWindow' = restored.obj
        /\ proxySandbox' =
             IF restored.threw THEN proxySandbox
             ELSE [proxySandbox EXCEPT ![i].sandboxRunning = FALSE]
  /\ UNCHANGED <<nProxyOps, loaderVars, legacyVars, lifecycleVars, cssVars>>

\* proxy[p] = value through the handle of sandbox i
ProxySet(i, p, value) ==
  /\ proxySandbox[i].created
  /\ nProxyOps < MaxProxyOps
  /\ LET r == ProxyHandleSet(proxySandbox[i], rawWindow, p, value) IN
       /\ proxySandbox' = [proxySandbox EXCEPT ![i] = r.sandbox]
       /\ rawWindow' = r.host
  /\ nProxyOps' = nProxyOps + 1
  /\ UNCHANGED <<activeSandboxCount, loaderVars, legacyVars, lifecycleVars, cssVars>>

\* delete proxy[p] through the handle of sandbox i
ProxyDelete(i, p) ==
  /\ proxySandbox[i].created
  /\ nProxyOps < MaxProxyOps
  /\ proxySandbox' = [proxySandbox EXCEPT ![i] = ProxyDeleteTrap(@, p)]
  /\ nProxyOps' = nProxyOps + 1
  /\ UNCHANGED <<rawWindow, activeSandboxCount, loaderVars, legacyVars,
                 lifecycleVars, cssVars>>

\* Object.getOwnPropertyDescriptor(proxy, p) through the handle of sandbox i
ProxyGetOwnPropertyDescriptor(i, p) ==
  /\ proxySandbox[i].created
  /\ proxySandbox' =
       [proxySandbox EXCEPT ![i] = ProxyGetOwnPropertyDescriptorTrap(@, rawWindow, p)]
  /\ UNCHANGED <<rawWindow, nProxyOps, activeSandboxCount, loaderVars, legacyVars,
                 lifecycleVars, cssVars>>

\* Reflect.defineProperty(proxy, p, attributes) through the handle of sandbox i
ProxyDefineProperty(i, p, attributes) ==
  /\ proxySandbox[i].created
  /\ nProxyOps < MaxProxyOps
  /\ LET r == ProxyDefinePropertyTrap(proxySandbox[i], rawWindow, p, attributes) IN
       /\ proxySandbox' = [proxySandbox EXCEPT ![i] = r.sandbox]
       /\ rawWindow' = r.host
  /\ nProxyOps' = nProxyOps + 1
  /\ UNCHANGED <<activeSandboxCount, loaderVars, legacyVars, lifecycleVars, cssVars>>

\* the keys and descriptors the tenants use with the descriptor traps
TrapKeys == {"fresh", "plain", "fixed", "System"}

TrapDescriptors == {Data(2, TRUE, TRUE), Data(3, FALSE, FALSE)}

\* every operation of the first tenant on its handle
NextProxyTraps ==
  \E i \in {1} :
    \/ ProxyCreate(i)
    \/ ProxyActive(i)
    \/ ProxyInactive(i)
    \/ \E p \in TrapKeys : ProxySet(i, p, 2)
    \/ \E p \in TrapKeys : ProxyDelete(i, p)
    \/ \E p \in TrapKeys : ProxyGetOwnPropertyDescriptor(i, p)
    \/ \E p \in TrapKeys, attributes \in TrapDescriptors :
         ProxyDefineProperty(i, p, attributes)

NextProxy ==
  \E i \in Sandboxes :
    \/ ProxyCreate(i)
    \/ ProxyActive(i)
    \/ ProxyInactive(i)
    \/ \E p \in ProxyKeys, value \in TenantValues : ProxySet(i, p, value)
    \/ \E p \in ProxyKeys : ProxyDelete(i, p)

InitProxyOn(hosts) ==
  /\ rawWindow \in hosts
  /\ proxySandbox = [i \in Sandboxes |-> NoProxySandbox]
  /\ activeSandboxCount = 0
  /\ nProxyOps = 0

\* a host page that is the top window
InitProxy == InitProxyOn({ProxyInitialWindow})

(***************************************************************************)
(* loader.ts: getLifecyclesFromExports.  A value is given by who holds it  *)
(* and by the hook names under which it holds a function.                  *)
(***************************************************************************)
RequiredHooks == {"bootstrap", "mount", "unmount"}

HookShapes == {{}, {"bootstrap", "mount"}, RequiredHooks}

GlobalKeys == {"", "app", "lib"}

Value(holder, hooks) == [holder |-> holder, hooks |-> hooks]

\* the tenant's entry exports a value with each of the three hooks
validateExportLifecycle(exports) == RequiredHooks \subseteq exports.hooks

\* if (globalLatestSetProp)
Truthy(key) == key # NullKey /\ key # ""

Returned(value) == [done |-> TRUE, threw |-> FALSE, value |-> value]

QiankunError == [done |-> TRUE, threw |-> TRUE, value |-> Value("error", {})]

NotCalled == [done |-> FALSE, threw |-> FALSE, value |-> Value("none", {})]

getLifecyclesFromExports(scriptExports, appName, global, globalLatestSetProp) ==
  IF validateExportLifecycle(scriptExports) THEN Returned(scriptExports)
  ELSE IF Truthy(globalLatestSetProp) /\ validateExportLifecycle(global[globalLatestSetProp])
  THEN Returned(global[globalLatestSetProp])
  ELSE IF validateExportLifecycle(global[appName]) THEN Returned(global[appName])
  ELSE QiankunError

\* the arguments of a call: what the entry script exported, the tenant's name,
\* what the tenant's global holds under each key, and the sandbox's latestSetProp
LifecycleInputs ==
  {[scriptExports |-> Value("exports", e),
    appName |-> n,
    global |-> [k \in GlobalKeys |-> Value(k, g[k])],
    globalLatestSetProp |-> l] :
     e \in HookShapes, n \in {"app", "lib"}, g \in [GlobalKeys -> HookShapes],
     l \in GlobalKeys \cup {NullKey}}

NoLifecycleInput ==
  [scriptExports |-> Value("exports", {}),
   appName |-> "app",
   global |-> [k \in GlobalKeys |-> Value(k, {})],
   globalLatestSetProp |-> NullKey]

\* loader.ts:335
DiscoverLifecycles ==
  /\ ~lifecycleResult.done
  /\ lifecycleResult' =
       getLifecyclesFromExports(lifecycleInput.scriptExports, lifecycleInput.appName,
                                lifecycleInput.global, lifecycleInput.globalLatestSetProp)
  /\ UNCHANGED <<lifecycleInput, hookVars, apiVars, loaderVars, sandboxVars, cssVars>>

(***************************************************************************)
(* loader.ts:321-329: the merged hook sets.  A hook set maps every hook     *)
(* name to nothing, to one function or to an array of functions; a         *)
(* function is given by where it comes from.                               *)
(***************************************************************************)
HookNames == {"beforeLoad", "beforeMount", "afterMount", "beforeUnmount", "afterUnmount"}

Missing == [kind |-> "undefined", items |-> << >>]
Function(f) == [kind |-> "function", items |-> <<f>>]
Array(fs) == [kind |-> "array", items |-> fs]

\* addons/index.ts: getAddOns merges the engine-flag and the runtime-publicPath
\* add-ons, each of which has one beforeLoad, beforeMount and beforeUnmount hook
getAddOns ==
  [n \in HookNames |->
     IF n \in {"beforeLoad", "beforeMount", "beforeUnmount"}
     THEN Array(<<<<"engineFlag", n>>, <<"publicPath", n>>>>)
     ELSE Missing]

\* what a caller may pass for hook name n: nothing, a function or an array
LifeCycleValue(n, kind) ==
  CASE kind = "undefined" -> Missing
    [] kind = "function" -> Function(<<"caller", n>>)
    [] kind = "array" -> Array(<<<<"caller1", n>>, <<"caller2", n>>>>)

\* v ?? []
OrEmpty(v) == IF v.kind = "undefined" THEN Array(<< >>) ELSE v

\* lodash concat(array, value): a new array of the elements of `array`
\* followed by `value`, or by its elements when it is an array
concat(array, value) ==
  Array((IF array.kind = "array" THEN array.items ELSE <<array.items[1]>>)
        \o (IF value.kind = "array" THEN value.items ELSE <<value.items[1]>>))

\* a customizer that lets the later source replace the earlier one
CustomizerOverwriting(v1, v2) == IF v2.kind = "undefined" THEN OrEmpty(v1) ELSE OrEmpty(v2)

\* loader.ts:327: (v1, v2) => concat(v1 ?? [], v2 ?? [])
customizer(v1, v2) == concat(OrEmpty(v1), OrEmpty(v2))

\* lodash mergeWith(object, source, customizer) on flat hook sets
MergeSource(object, source) == [n \in HookNames |-> customizer(object[n], source[n])]

\* loader.ts:321-327: mergeWith({}, getAddOns(...), lifeCycles, customizer), and
\* the destructuring default [] of each hook name
mergeWith(addOns, lifeCycles) ==
  LET empty == [n \in HookNames |-> Missing]
      merged == MergeSource(MergeSource(empty, addOns), lifeCycles)
  IN [n \in HookNames |-> OrEmpty(merged[n])]

\* utils.ts: toArray
toArray(v) == IF v.kind = "array" THEN v.items ELSE <<v.items[1]>>

NoHooksRun == [done |-> FALSE, name |-> "", merged |-> << >>, ran |-> << >>]

\* loader.ts:329, 387, 392, 408, 411: execHooksChain(toArray(hooks of name n)),
\* every hook resolving or rejecting
RunHooks(n) ==
  /\ ~hookResult.done
  /\ LET hooks == toArray(mergeWith(getAddOns, hookInput)[n]) IN
       \E outcomes \in [1..Len(hooks) -> {"ok", "reject"}] :
         hookResult' = [done |-> TRUE, name |-> n, merged |-> hooks,
                        ran |-> execHooksChain(outcomes)]
  /\ UNCHANGED <<hookInput, lifecycleInput, lifecycleResult, apiVars, loaderVars,
                 sandboxVars, cssVars>>

NextHooks == \E n \in HookNames : RunHooks(n)

InitHooks ==
  /\ \E kinds \in [HookNames -> {"undefined", "function", "array"}] :
       hookInput = [n \in HookNames |-> LifeCycleValue(n, kinds[n])]
  /\ hookResult = NoHooksRun

IdleHooks ==
  /\ hookInput = << >>
  /\ hookResult = NoHooksRun

InitLifecycles ==
  /\ lifecycleInput \in LifecycleInputs
  /\ lifecycleResult = NotCalled
  /\ IdleHooks
  /\ IdleApis

(***************************************************************************)
(* ScopedCSS (proxySandbox.ts:358-565).  A text is a sequence of tokens:   *)
(* a word (a run of word characters, kept whole) or one other character.   *)
(* No word of the model contains "body" or "html" besides these two words  *)
(* themselves, so a regular expression of ruleStyle matches a text of      *)
(* tokens where it matches the text of characters.  The prefix is one      *)
(* token; no root word follows it directly in any text of the model.       *)
(***************************************************************************)
Prefix == "div[data-x=\"a\"]"

StyleNodes == 1..NumStyleNodes

\* the character class [^\w\-.#]
NotNameChar == {" ", ",", ">", "+", "~", ":", "(", ")", "{", "}"}

\* the character class [^\w{[]
NotWordBraceBracket == {" ", ",", ">", "+", "~", ":", "(", ")", "}", ".", "#", "-"}

\* the character class [^\w{]
NotWordBrace == NotWordBraceBracket \cup {"["}

\* number of leading tokens of text[i..] in the class
RECURSIVE RunLength(_, _, _)
RunLength(text, i, class) ==
  IF i <= Len(text) /\ text[i] \in class THEN 1 + RunLength(text, i + 1, class) ELSE 0

\* number of leading tokens of text[i..] that are not a comma: [^,]+
RECURSIVE RunUntilComma(_, _)
RunUntilComma(text, i) ==
  IF i <= Len(text) /\ text[i] # "," THEN 1 + RunUntilComma(text, i + 1) ELSE 0

\* String.prototype.trim
Trim(text) ==
  LET kept == {i \in 1..Len(text) : text[i] # " "} IN
    IF kept = {} THEN << >>
    ELSE SubSeq(text, CHOOSE i \in kept : \A j \in kept : i <= j,
                      CHOOSE i \in kept : \A j \in kept : j <= i)

\* (body|html|:root) at token i: the number of tokens matched, 0 for no match
RootAt(text, i) ==
  IF i > Len(text) THEN 0
  ELSE IF text[i] \in {"body", "html"} THEN 1
  ELSE IF text[i] = ":" /\ i < Len(text) /\ text[i + 1] = "root" THEN 2
  ELSE 0

\* /((?:[^\w\-.#]|^)(body|html|:root))/gm beginning at token i: the number of
\* tokens matched, 0 for no match
rootSelectorRE(text, i) ==
  IF text[i] \in NotNameChar /\ RootAt(text, i + 1) > 0 THEN 1 + RootAt(text, i + 1)
  ELSE IF i = 1 THEN RootAt(text, 1)
  ELSE 0

\* rootSelectorRE.test(text) with lastIndex 0
TestRootSelector(text) == \E i \in 1..Len(text) : rootSelectorRE(text, i) > 0

\* text.replace(rootSelectorRE, ...) from token i on.  keepPrev: the replacer
\* of proxySandbox.ts:532-543, which keeps a matched leading ',' or '(';
\* otherwise the whole match becomes the prefix (proxySandbox.ts:512).
RECURSIVE ReplaceRootSelector(_, _, _, _)
ReplaceRootSelector(text, i, keepPrev, prefix) ==
  IF i > Len(text) THEN << >>
  ELSE LET n == rootSelectorRE(text, i) IN
         IF n = 0
         THEN <<text[i]>> \o ReplaceRootSelector(text, i + 1, keepPrev, prefix)
         ELSE (IF keepPrev /\ text[i] \in {",", "("} THEN <<text[i]>> ELSE << >>)
              \o <<prefix>> \o ReplaceRootSelector(text, i + n, keepPrev, prefix)

\* /(html[^\w{[]+)/gm beginning at token i: the number of tokens matched
rootCombinationRE(text, i) ==
  IF text[i] = "html" /\ RunLength(text, i + 1, NotWordBraceBracket) > 0
  THEN 1 + RunLength(text, i + 1, NotWordBraceBracket)
  ELSE 0

TestRootCombination(text) == \E i \in 1..Len(text) : rootCombinationRE(text, i) > 0

\* text.replace(rootCombinationRE, '') from token i on
RECURSIVE RemoveRootCombination(_, _)
RemoveRootCombination(text, i) ==
  IF i > Len(text) THEN << >>
  ELSE LET n == rootCombinationRE(text, i) IN
         IF n = 0 THEN <<text[i]>> \o RemoveRootCombination(text, i + 1)
         ELSE RemoveRootCombination(text, i + n)

\* /(html[^\w{]+)(\+|~)/gm .test(text)
siblingSelectorRE(text) ==
  \E i \in 1..Len(text) :
    /\ text[i] = "html"
    /\ \E j \in (i + 2)..Len(text) :
         /\ text[j] \in {"+", "~"}
         /\ \A k \in (i + 1)..(j - 1) : text[k] \in NotWordBrace

\* the replacer of one member of a selector group, proxySandbox.ts:529-546:
\* p is the separator matched by (^|,\n?), s the member matched by ([^,]+)
GroupItem(p, s, prefix) ==
  LET item == p \o s IN
    IF TestRootSelector(item)
    THEN ReplaceRootSelector(item, 1, TRUE, prefix)
    ELSE p \o <<prefix, " ">> \o SubSeq(s, RunLength(s, 1, {" "}) + 1, Len(s))

\* selectors.replace(/(^|,\n?)([^,]+)/g, ...) from token i on
RECURSIVE ReplaceGroupItems(_, _, _)
ReplaceGroupItems(selectors, i, prefix) ==
  IF i > Len(selectors) THEN << >>
  ELSE LET start == IF selectors[i] = "," THEN i + 1 ELSE i
           n == RunUntilComma(selectors, start)
       IN IF (selectors[i] = "," \/ i = 1) /\ n > 0
          THEN GroupItem(SubSeq(selectors, i, start - 1),
                         SubSeq(selectors, start, start + n - 1), prefix)
               \o ReplaceGroupItems(selectors, start + n, prefix)
          ELSE <<selectors[i]>> \o ReplaceGroupItems(selectors, i + 1, prefix)

\* the index of the last "{" of a text, 0 when it has none
LastBrace(text) ==
  LET braces == {i \in 1..Len(text) : text[i] = "{"} IN
    IF braces = {} THEN 0 ELSE CHOOSE i \in braces : \A j \in braces : j <= i

\* ScopedCSS.ruleStyle, proxySandbox.ts:497-550: the rewritten cssText
ruleStyle(rule, prefix) ==
  LET selector == Trim(rule.selectorText)
      cssText == rule.cssText
  IN IF selector \in {<<"html">>, <<"body">>, <<":", "root">>}
     THEN ReplaceRootSelector(cssText, 1, FALSE, prefix)
     ELSE LET stripped ==
                IF TestRootCombination(rule.selectorText)
                   /\ ~siblingSelectorRE(rule.selectorText)
                THEN RemoveRootCombination(cssText, 1)
                ELSE cssText
              brace == LastBrace(stripped)
          IN IF brace < 2 THEN stripped
             ELSE ReplaceGroupItems(SubSeq(stripped, 1, brace), 1, prefix)
                  \o SubSeq(stripped, brace + 1, Len(stripped))

(***************************************************************************)
(* A stylesheet text is a sequence of rule texts.  The host parses a rule  *)
(* text into a rule; the selector of a style rule is serialised with its   *)
(* members trimmed and joined by ", ".                                     *)
(***************************************************************************)
\* the members of a selector group
RECURSIVE SplitGroup(_, _, _)
SplitGroup(text, i, member) ==
  IF i > Len(text) THEN <<Trim(member)>>
  ELSE IF text[i] = "," THEN <<Trim(member)>> \o SplitGroup(text, i + 1, << >>)
  ELSE SplitGroup(text, i + 1, Append(member, text[i]))

RECURSIVE JoinGroup(_, _)
JoinGroup(members, i) ==
  IF i > Len(members) THEN << >>
  ELSE (IF i > 1 THEN <<",", " ">> ELSE << >>) \o members[i] \o JoinGroup(members, i + 1)

\* the tokens of a rule text before its first "{"
SelectorPart(text) ==
  LET braces == {i \in 1..Len(text) : text[i] = "{"} IN
    IF braces = {} THEN text
    ELSE SubSeq(text, 1, (CHOOSE i \in braces : \A j \in braces : i <= j) - 1)

\* CSSStyleRule of a rule text: selectorText and cssText as the host serialises them
ParseStyleRule(text) ==
  LET selectorText == JoinGroup(SplitGroup(SelectorPart(text), 1, << >>), 1) IN
    [selectorText |-> selectorText,
     cssText |-> selectorText \o <<" ">>
                 \o SubSeq(text, Len(SelectorPart(text)) + 1, Len(text))]

\* a rule text of type STYLE, MEDIA (text: the condition, inner: the rule
\* texts of its style rules) or of another type
StyleRule(selector) ==
  [type |-> "style", text |-> selector \o <<"{", "decl", "}">>, inner |-> << >>]

MediaRule(selectors) ==
  [type |-> "media", text |-> <<"screen">>,
   inner |-> [i \in 1..Len(selectors) |-> selectors[i] \o <<"{", "decl", "}">>]]

FontFaceRule ==
  [type |-> "font-face", text |-> <<"@font-face", " ", "{", "decl", "}">>, inner |-> << >>]

\* ScopedCSS.rewrite with ruleMedia, proxySandbox.ts:444-475, 554-557: the css
\* text built from the parsed rules
rewrite(rules, prefix) ==
  [i \in 1..Len(rules) |->
     CASE rules[i].type = "style" ->
            [rules[i] EXCEPT !.text = ruleStyle(ParseStyleRule(@), prefix)]
       [] rules[i].type = "media" ->
            [rules[i] EXCEPT
               !.inner = [j \in 1..Len(@) |-> ruleStyle(ParseStyleRule(@[j]), prefix)]]
       [] OTHER -> rules[i]]

\* selectors as stylesheet authors write them and as the host serialises them
SelectorInputs ==
  { <<"body">>, <<"html">>, <<":", "root">>,
    <<".", "foo">>,
    <<".", "foo", ",", " ", ".", "bar">>,
    <<".", "foo", ",", ".", "bar", " ">>,
    <<"html", " ", "body">>,
    <<"html", " ", ">", " ", "body">>,
    <<"html", " ", "+", " ", "body">>,
    <<"html", " ", "~", " ", "body">>,
    <<"body", " ", ".", "foo">>,
    <<"body", ",", " ", "html">>,
    <<".", "foo", " ", "body">>,
    <<"html", " ", ".", "foo">> }

\* the stylesheet texts a tenant puts into a <style> element
StyleTexts ==
  {<<StyleRule(selector)>> : selector \in SelectorInputs}
    \cup { <<MediaRule(<< <<".", "foo">>, <<"body">> >>)>>,
           <<FontFaceRule, StyleRule(<<".", "bar">>)>> }

\* a <style> element: its text, ScopedCSS.ModifiedTag, the MutationObservers
\* process() put on it, whether mutation records are queued for them, whether
\* it is in the document; calls, rewrites and written record what happened to it
NewStyleNode(text, attached) ==
  [textContent |-> text,
   modified |-> FALSE,
   observers |-> 0,
   queued |-> FALSE,
   attached |-> attached,
   written |-> text,
   calls |-> 0,
   rewrites |-> 0]

\* the node after its text was replaced by the rewrite of `rules`
Rewritten(node, rules, prefix) ==
  [node EXCEPT !.textContent = rewrite(rules, prefix),
               !.modified = TRUE,
               !.queued = node.observers > 0,
               !.rewrites = @ + 1]

\* ScopedCSS.process without the test of the marker
ProcessUnmarked(node, prefix) ==
  IF node.textContent # << >>
  THEN Rewritten(node, node.textContent, prefix)
  ELSE [node EXCEPT !.observers = @ + 1]

\* ScopedCSS.process(styleNode, prefix), proxySandbox.ts:381-435
process(node, prefix) ==
  IF node.modified THEN node
  ELSE IF node.textContent # << >>
  THEN Rewritten(node, node.textContent, prefix)
  ELSE [node EXCEPT !.observers = @ + 1]

\* the callback of a MutationObserver, proxySandbox.ts:404-426: the rules are
\* those of styleNode.sheet, which a node outside the document does not have
mutator(node, prefix) ==
  IF node.modified THEN [node EXCEPT !.queued = FALSE]
  ELSE Rewritten(node, IF node.attached THEN node.textContent ELSE << >>, prefix)

\* css.process(appWrapper, stylesheetElement, appName) on node n
CssProcess(n) ==
  /\ styleNode[n].calls < MaxProcessCalls
  /\ styleNode[n].rewrites < MaxRewrites
  /\ styleNode' = [styleNode EXCEPT ![n] = [process(@, Prefix) EXCEPT !.calls = @ + 1]]
  /\ UNCHANGED <<loaderVars, sandboxVars, lifecycleVars>>

\* the tenant puts a text into the empty node n
TenantWrite(n, text) ==
  /\ styleNode[n].textContent = << >>
  /\ styleNode[n].written = << >>
  /\ styleNode' = [styleNode EXCEPT ![n].textContent = text,
                                    ![n].written = text,
                                    ![n].queued = styleNode[n].observers > 0]
  /\ UNCHANGED <<loaderVars, sandboxVars, lifecycleVars>>

\* the host delivers the queued mutation records of node n to its observers
ObserverCallback(n) ==
  /\ styleNode[n].queued
  /\ styleNode[n].rewrites < MaxRewrites
  /\ styleNode' = [styleNode EXCEPT ![n] = mutator(@, Prefix)]
  /\ UNCHANGED <<loaderVars, sandboxVars, lifecycleVars>>

NextCss ==
  \E n \in StyleNodes :
    \/ CssProcess(n)
    \/ \E text \in StyleTexts : TenantWrite(n, text)
    \/ ObserverCallback(n)

InitCss ==
  \E texts \in [StyleNodes -> StyleTexts \cup {<< >>}], attached \in [StyleNodes -> BOOLEAN] :
    styleNode = [n \in StyleNodes |-> NewStyleNode(texts[n], attached[n])]

IdleCss == styleNode = << >>

IdleLifecycles ==
  /\ lifecycleInput = NoLifecycleInput
  /\ lifecycleResult = NotCalled
  /\ IdleHooks
  /\ IdleApis

IdleLegacy ==
  /\ legacy = NoLegacySandbox
  /\ nLegacyOps = 0
  /\ hostChange = NoHostChange

IdleProxy ==
  /\ proxySandbox = [i \in Sandboxes |-> NoProxySandbox]
  /\ activeSandboxCount = 0
  /\ nProxyOps = 0

IdleSandboxes ==
  /\ rawWindow = << >>
  /\ IdleLegacy
  /\ IdleProxy

(***************************************************************************)
(* The history listener patch (proxySandbox.ts:625-669).  A subscription   *)
(* is the number of the raw listen call that made it; the unListen the raw *)
(* listen returned for it and the function the patched listen returned for *)
(* it carry the same number.                                               *)
(***************************************************************************)
Listeners == {"onRoute", "onTitle"}

\* Array.prototype.indexOf: the position from 0 of the first x in s, or -1
indexOf(s, x) ==
  IF x \in Range(s) THEN (CHOOSE i \in 1..Len(s) : s[i] = x /\ \A j \in 1..(i - 1) : s[j] # x) - 1
  ELSE -1

\* Array.prototype.splice(start, 1): a negative start counts from the end
splice(s, start) ==
  LET from == IF start < 0 THEN (IF Len(s) + start < 0 THEN 0 ELSE Len(s) + start)
              ELSE start IN
    [i \in 1..(Len(s) - (IF from < Len(s) THEN 1 ELSE 0)) |->
       IF i <= from THEN s[i] ELSE s[i + 1]]

\* history's listen: a new subscription of the listener
rawHistoryListen(h, listener) ==
  [h EXCEPT !.listener = Append(@, listener),
            !.subscribed = @ \cup {Len(h.listener) + 1}]

\* proxySandbox.ts:633-644: the listen function the patch installs
PatchedListen(h, listener) ==
  [rawHistoryListen(h, listener) EXCEPT
     !.historyListeners = Append(@, listener),
     !.historyUnListens = Append(@, Len(h.listener) + 1),
     !.viaPatch = @ \cup {Len(h.listener) + 1}]

\* whatever function is in window.g_history.listen now
Listen(h, listener) ==
  IF h.listen = "patched" THEN PatchedListen(h, listener) ELSE rawHistoryListen(h, listener)

\* proxySandbox.ts:639-643: the function the patched listen returned for subscription id
PatchedUnListen(h, id) ==
  [h EXCEPT !.subscribed = @ \ {id},
            !.historyUnListens = splice(@, indexOf(@, id)),
            !.historyListeners = splice(@, indexOf(@, h.listener[id])),
            !.removed = IF h.phase = "patched" THEN @ \cup {id} ELSE @]

RECURSIVE ListenEach(_, _)
ListenEach(h, listeners) ==
  IF listeners = << >> THEN h ELSE ListenEach(Listen(h, Head(listeners)), Tail(listeners))

HistoryFrame ==
  UNCHANGED <<microApps, lifecycleInput, lifecycleResult, hookVars, loaderVars, sandboxVars,
              cssVars>>

\* proxySandbox.ts:625-646: patch()
PatchHistoryListener ==
  /\ g_history.phase = "unpatched"
  /\ g_history' = [g_history EXCEPT !.phase = "patched",
                                    !.listen = IF g_history.present THEN "patched" ELSE @]
  /\ HistoryFrame

\* the tenant, or the host, calls window.g_history.listen(listener)
HistoryListen(listener) ==
  /\ g_history.present
  /\ Len(g_history.listener) < MaxListens
  /\ g_history' = Listen(g_history, listener)
  /\ HistoryFrame

\* the caller of listen calls the function it got back for subscription id, again
\* if it likes
HistoryUnListen(id) ==
  /\ id \in 1..Len(g_history.listener)
  /\ id <= MaxListens
  /\ g_history' = IF id \in g_history.viaPatch THEN PatchedUnListen(g_history, id)
                  ELSE [g_history EXCEPT !.subscribed = @ \ {id}]
  /\ HistoryFrame

\* proxySandbox.ts:648-668: free()
FreeHistoryListener ==
  /\ g_history.phase = "patched"
  /\ g_history' =
       [g_history EXCEPT
          !.phase = "freed",
          !.rebuild = IF Len(g_history.historyListeners) > 0 THEN "rebuild" ELSE "noop",
          !.subscribed = @ \ Range(g_history.historyUnListens),
          !.listen = IF g_history.present THEN "bound" ELSE @,
          !.atFree = g_history.viaPatch \ g_history.removed]
  /\ HistoryFrame

\* proxySandbox.ts:654-656: the function free() returned is called
RebuildHistoryListener ==
  /\ g_history.phase = "freed"
  /\ g_history' =
       IF g_history.rebuild = "noop" THEN [g_history EXCEPT !.phase = "rebuilt"]
       ELSE [ListenEach(g_history, g_history.historyListeners) EXCEPT
               !.phase = "rebuilt", !.rebuilt = g_history.historyListeners]
  /\ HistoryFrame

NextHistoryPatch ==
  \/ PatchHistoryListener
  \/ \E listener \in Listeners : HistoryListen(listener)
  \/ \E id \in 1..MaxListens : HistoryUnListen(id)
  \/ FreeHistoryListener
  \/ RebuildHistoryListener

InitHistory == \E present \in BOOLEAN : g_history = [NoHistory EXCEPT !.present = present]

(***************************************************************************)
(* loadMicroApp (part_004:310-421) for one tenant name and one container   *)
(* of the document.  A micro app is the number of the call that made it; a *)
(* promise of loadApp is the number of the loadApp call.  The parcel is    *)
(* single-spa's: it calls the loading function at once, bootstraps and     *)
(* mounts when the function's promise resolves, and settles unmountPromise *)
(* when an unmount ends.                                                   *)
(***************************************************************************)
Broken == {"LOAD_ERROR", "SKIP_BECAUSE_BROKEN"}

\* Array.prototype.slice(0, end): a negative end counts from the end
slice(s, end) ==
  LET to == IF end < 0 THEN (IF Len(s) + end < 0 THEN 0 ELSE Len(s) + end)
            ELSE (IF end > Len(s) THEN Len(s) ELSE end) IN
    SubSeq(s, 1, to)

\* part_004:366-377: the promise the cache holds for this call, 0 when it holds none
CachedPromise(m, cacheLifecycleByAppName) ==
  IF cacheLifecycleByAppName /\ m.appConfigPromiseGetterMap.name # 0
    THEN m.appConfigPromiseGetterMap.name
    ELSE m.appConfigPromiseGetterMap.xpath

\* part_004:324-355: whether the config gets the step that waits for the earlier micro apps
wrapParcelConfigWaits(m) == Len(m.containerMicroApps) > 0

\* part_004:333-337: the micro apps whose unmountPromise the wait step of i awaits
prevLoadMicroAppsWhichNotBroken(m, i) ==
  LET microApp == IF m.apps[i].microApp = "null" THEN 0 ELSE i
      prevLoadMicroApps == slice(m.containerMicroApps, indexOf(m.containerMicroApps, microApp))
  IN {v \in Range(prevLoadMicroApps) : m.apps[v].status \notin Broken}

MicroAppFrame ==
  UNCHANGED <<g_history, lifecycleInput, lifecycleResult, hookVars, loaderVars, sandboxVars,
              cssVars>>

\* part_004:310-421: loadMicroApp(app, configuration); mountRootParcel calls
\* memorizedLoadingFn, which runs to its first await
LoadMicroApp(cacheLifecycleByAppName) ==
  /\ Len(microApps.apps) < MaxInstances
  /\ LET i == Len(microApps.apps) + 1
         cached == CachedPromise(microApps, cacheLifecycleByAppName)
         load == IF cached # 0 THEN cached ELSE Len(microApps.loads) + 1
     IN microApps' =
          [microApps EXCEPT
             !.loads = IF cached # 0 THEN @ ELSE Append(@, "pending"),
             !.appConfigPromiseGetterMap =
                IF cached # 0 THEN @
                ELSE IF cacheLifecycleByAppName THEN [@ EXCEPT !.name = load]
                ELSE [@ EXCEPT !.xpath = load],
             !.containerMicroApps = Append(@, i),
             !.apps = Append(@, [load |-> load, remount |-> cached # 0, waits |-> FALSE,
                                 status |-> "LOADING_SOURCE_CODE", phase |-> "loading",
                                 awaits |-> {}, unmountPromise |-> "pending",
                                 microApp |-> "set"])]
  /\ MicroAppFrame

\* the promise loadApp returned resolves or rejects
LoadAppSettles(load, outcome) ==
  /\ load \in 1..Len(microApps.loads)
  /\ microApps.loads[load] = "pending"
  /\ microApps' = [microApps EXCEPT !.loads[load] = outcome]
  /\ MicroAppFrame

\* part_004:370, 375, 387: memorizedLoadingFn goes on after its await, and the parcel
\* bootstraps with the config it returns
LoadingFnReturns(i, bootstrapped) ==
  /\ i \in 1..Len(microApps.apps)
  /\ microApps.apps[i].phase = "loading"
  /\ microApps.loads[microApps.apps[i].load] # "pending"
  /\ microApps' =
       IF microApps.loads[microApps.apps[i].load] = "rejected"
         THEN [microApps EXCEPT !.apps[i].phase = "failed"]
       ELSE IF ~microApps.apps[i].remount /\ ~bootstrapped
         THEN [microApps EXCEPT !.apps[i].phase = "failed",
                                !.apps[i].status = "SKIP_BECAUSE_BROKEN"]
       ELSE [microApps EXCEPT
               !.apps[i].phase = "loaded",
               !.apps[i].status = "NOT_MOUNTED",
               !.apps[i].waits = microApps.apps[i].remount /\ wrapParcelConfigWaits(microApps)]
  /\ MicroAppFrame

\* the parcel starts its mount pipeline; part_004:331-338 when the wait step is its first
MicroAppMount(i) ==
  /\ i \in 1..Len(microApps.apps)
  /\ microApps.apps[i].phase = "loaded"
  /\ microApps' =
       [microApps EXCEPT
          !.apps[i].phase = "waiting",
          !.apps[i].status = "MOUNTING",
          !.apps[i].awaits = IF microApps.apps[i].waits
                               THEN prevLoadMicroAppsWhichNotBroken(microApps, i) ELSE {}]
  /\ MicroAppFrame

\* part_004:337: Promise.all of the awaited unmountPromises settles, and the mount steps
\* of loadApp start or the mount is rejected
MicroAppWaitSettles(i) ==
  /\ i \in 1..Len(microApps.apps)
  /\ microApps.apps[i].phase = "waiting"
  /\ LET states == {microApps.apps[v].unmountPromise : v \in microApps.apps[i].awaits} IN
       /\ "rejected" \in states \/ states \subseteq {"resolved"}
       /\ microApps' =
            IF "rejected" \in states
              THEN [microApps EXCEPT !.apps[i].phase = "failed",
                                     !.apps[i].status = "SKIP_BECAUSE_BROKEN"]
              ELSE [microApps EXCEPT !.apps[i].phase = "mounting"]
  /\ MicroAppFrame

\* the mount steps of loadApp end
MicroAppMounted(i, mounted) ==
  /\ i \in 1..Len(microApps.apps)
  /\ microApps.apps[i].phase = "mounting"
  /\ microApps' =
       IF mounted THEN [microApps EXCEPT !.apps[i].phase = "mounted",
                                         !.apps[i].status = "MOUNTED"]
       ELSE [microApps EXCEPT !.apps[i].phase = "failed",
                              !.apps[i].status = "SKIP_BECAUSE_BROKEN"]
  /\ MicroAppFrame

\* microApp.unmount() on a mounted parcel
MicroAppUnmount(i) ==
  /\ i \in 1..Len(microApps.apps)
  /\ microApps.apps[i].phase = "mounted"
  /\ microApps' = [microApps EXCEPT !.apps[i].phase = "unmounting",
                                    !.apps[i].status = "UNMOUNTING"]
  /\ MicroAppFrame

\* the unmount pipeline ends and unmountPromise settles; so it does, rejected, for
\* microApp.unmount() on a parcel that failed to load, bootstrap or mount
MicroAppUnmounted(i, unmounted) ==
  /\ i \in 1..Len(microApps.apps)
  /\ microApps.apps[i].unmountPromise = "pending"
  /\ \/ /\ microApps.apps[i].phase = "unmounting"
        /\ microApps' =
             IF unmounted THEN [microApps EXCEPT !.apps[i].phase = "unmounted",
                                                 !.apps[i].status = "NOT_MOUNTED",
                                                 !.apps[i].unmountPromise = "resolved"]
             ELSE [microApps EXCEPT !.apps[i].phase = "failed",
                                    !.apps[i].status = "SKIP_BECAUSE_BROKEN",
                                    !.apps[i].unmountPromise = "rejected"]
     \/ /\ microApps.apps[i].phase = "failed"
        /\ ~unmounted
        /\ microApps' = [microApps EXCEPT !.apps[i].status = "SKIP_BECAUSE_BROKEN",
                                          !.apps[i].unmountPromise = "rejected"]
  /\ MicroAppFrame

\* part_004:406-414: cleanup, on either settlement of unmountPromise
MicroAppCleanup(i) ==
  /\ i \in 1..Len(microApps.apps)
  /\ microApps.apps[i].unmountPromise # "pending"
  /\ microApps.apps[i].microApp = "set"
  /\ microApps' =
       [microApps EXCEPT
          !.containerMicroApps = splice(@, indexOf(@, i)),
          !.apps[i].microApp = "null"]
  /\ MicroAppFrame

NextMicroApps ==
  \/ \E cacheLifecycleByAppName \in BOOLEAN : LoadMicroApp(cacheLifecycleByAppName)
  \/ \E load \in 1..MaxInstances, outcome \in {"fulfilled", "rejected"} : LoadAppSettles(load, outcome)
  \/ \E i \in 1..MaxInstances :
       \/ \E bootstrapped \in BOOLEAN : LoadingFnReturns(i, bootstrapped)
       \/ MicroAppMount(i)
       \/ MicroAppWaitSettles(i)
       \/ \E mounted \in BOOLEAN : MicroAppMounted(i, mounted)
       \/ MicroAppUnmount(i)
       \/ \E unmounted \in BOOLEAN : MicroAppUnmounted(i, unmounted)
       \/ MicroAppCleanup(i)

(***************************************************************************)
(* Specifications                                                          *)
(***************************************************************************)
IdleLoader == InitLoader({}, {TRUE}, FALSE)

\* every tenant under singular mode, hooks that always resolve
InitGate ==
  InitLoader(Tenants, {TRUE}, FALSE) /\ IdleSandboxes /\ IdleLifecycles /\ IdleCss

SpecGate == InitGate /\ [][NextLoader]_vars

\* two tenants' pipelines, hooks that may reject, both modes
InitPipeline ==
  InitLoader({1, 2}, BOOLEAN, TRUE) /\ IdleSandboxes /\ IdleLifecycles /\ IdleCss

SpecPipeline == InitPipeline /\ [][NextLoader]_vars

\* two tenants under singular mode, hooks that may reject; every started pipeline
\* step is eventually run, and every mounted tenant's unmount pipeline is
\* eventually invoked
InitFairGate ==
  InitLoader({1, 2}, {TRUE}, TRUE) /\ IdleSandboxes /\ IdleLifecycles /\ IdleCss

FairSpecGate ==
  /\ InitFairGate
  /\ [][NextLoader]_vars
  /\ \A t \in Tenants : WF_vars(PipelineStep(t)) /\ WF_vars(StartUnmount(t))

InitContainer ==
  IdleLoader /\ IdleSandboxes /\ IdleLifecycles /\ IdleCss

SpecContainer == InitContainer /\ [][NextContainer]_vars

InitLegacySandbox ==
  IdleLoader /\ InitLegacy /\ IdleProxy /\ IdleLifecycles /\ IdleCss

SpecLegacy == InitLegacySandbox /\ [][NextLegacy]_vars

\* the same sandbox over a host whose own code assigns global keys while the
\* sandbox is inactive
InitLegacyHost ==
  IdleLoader /\ InitLegacy /\ IdleProxy /\ IdleLifecycles /\ IdleCss

SpecLegacyHost == InitLegacyHost /\ [][NextLegacyHost]_vars

InitProxySandboxes ==
  IdleLoader /\ InitProxy /\ IdleLegacy /\ IdleLifecycles /\ IdleCss

SpecProxy == InitProxySandboxes /\ [][NextProxy]_vars

\* the same sandboxes over a host page that is the top window or is embedded
\* in an iframe
InitProxyAnyHost ==
  /\ IdleLoader
  /\ InitProxyOn({ProxyInitialWindow, EmbeddedInitialWindow})
  /\ IdleLegacy
  /\ IdleLifecycles
  /\ IdleCss

SpecProxyAnyHost == InitProxyAnyHost /\ [][NextProxy]_vars

\* the same sandboxes, the tenants also reading and defining descriptors
InitProxyTraps ==
  IdleLoader /\ InitProxy /\ IdleLegacy /\ IdleLifecycles /\ IdleCss

SpecProxyTraps == InitProxyTraps /\ [][NextProxyTraps]_vars

InitDiscovery ==
  IdleLoader /\ IdleSandboxes /\ InitLifecycles /\ IdleCss

SpecLifecycles == InitDiscovery /\ [][DiscoverLifecycles]_vars

\* two tenants under every configuration start() and loadApp accept: any
\* sandbox options, with or without a render callback, with or without
\* window.Proxy, singular or not; hooks that always resolve
InitConfigured ==
  /\ InitLoaderWith({1, 2}, BOOLEAN, {FALSE}, FALSE, SandboxOptions, BOOLEAN, BOOLEAN)
  /\ IdleSandboxes
  /\ IdleLifecycles
  /\ IdleCss

SpecConfigured == InitConfigured /\ [][NextLoader]_vars

\* two tenants with singular given as a function of the tenant descriptor,
\* whose result the host may change at any time
InitSingularFunction ==
  /\ InitLoaderWith({1, 2}, {TRUE}, {TRUE}, FALSE, {DefaultSandbox}, {FALSE}, {TRUE})
  /\ IdleSandboxes
  /\ IdleLifecycles
  /\ IdleCss

SpecSingularFunction == InitSingularFunction /\ [][NextSingularFunction]_vars

\* a tenant under singular mode, in a document whose containers the host
\* removes and inserts
InitRender ==
  InitLoader({1}, {TRUE}, FALSE) /\ IdleSandboxes /\ IdleLifecycles /\ IdleCss

SpecRender == InitRender /\ [][NextRender]_vars

\* two tenants of one container, singular or not, that listen to the state channel
InitStateChannel ==
  InitLoader({1, 3}, BOOLEAN, FALSE) /\ IdleSandboxes /\ IdleLifecycles /\ IdleCss

SpecStateChannel == InitStateChannel /\ [][NextStateChannel]_vars

\* the hook sets of any caller, merged with the add-on hooks and run
InitHookSets ==
  /\ IdleLoader
  /\ IdleSandboxes
  /\ lifecycleInput = NoLifecycleInput
  /\ lifecycleResult = NotCalled
  /\ InitHooks
  /\ IdleApis
  /\ IdleCss

SpecHooks == InitHookSets /\ [][NextHooks]_vars

\* one patch of window.g_history.listen, with or without a window.g_history, and
\* callers of listen before, during and after it
InitHistoryPatch ==
  /\ IdleLoader
  /\ IdleSandboxes
  /\ lifecycleInput = NoLifecycleInput
  /\ lifecycleResult = NotCalled
  /\ IdleHooks
  /\ InitHistory
  /\ microApps = NoMicroApps
  /\ IdleCss

SpecHistoryPatch == InitHistoryPatch /\ [][NextHistoryPatch]_vars

\* calls of loadMicroApp for one tenant name and one container, each with its own
\* configuration
InitMicroApps == IdleLoader /\ IdleSandboxes /\ IdleLifecycles /\ IdleCss

SpecMicroApps == InitMicroApps /\ [][NextMicroApps]_vars

\* <style> elements of any text, in or outside the document, handed to ScopedCSS
InitScopedCSS == IdleLoader /\ IdleSandboxes /\ IdleLifecycles /\ InitCss

SpecScopedCSS == InitScopedCSS /\ [][NextCss]_vars

(***************************************************************************)
(* Claims                                                                  *)
(***************************************************************************)

\* C1: under singular mode, a tenant B whose mount pipeline started while a
\* tenant A was mounted (A's mount pipeline had armed the signal) has not had
\* its sandbox activated or its mount hook invoked unless A's unmount pipeline
\* has since run its last step.
C1_MountWaitsForPreviousUnmount ==
  singular => \A b \in Tenants : pc[b] \in PastActivationPcs => blockers[b] = {}

\* C2: under singular mode at most one tenant is between the invocation of its
\* mount hook and the completion of its unmount pipeline.
C2_AtMostOneActiveTenant ==
  singular => Cardinality({t \in Tenants : pc[t] \in ActivePcs}) <= 1

\* every key the host held before the sandbox was constructed holds its
\* original value on `host`, and every other key is absent from `host`
LegacyRestored(host) ==
  \A k \in LegacyKeys :
    IF LegacyInitialWindow[k].present
    THEN host[k].present /\ host[k].value = LegacyInitialWindow[k].value
    ELSE ~host[k].present

\* C3: whenever inactive() of the exclusive-instance sandbox returns, after any
\* sequence of set and defineProperty operations through the handle, every key
\* the host held before holds its original value and every key the tenant added
\* is absent from the host.
C3_DeactivateRestoresHost ==
  [][LegacyInactive /\ ~LegacyInactivated(legacy, rawWindow).threw
       => LegacyRestored(rawWindow')]_vars

\* what sandbox j's handle returns for key k in the given state of the sandboxes
\* and of the host
ReadThrough(sandboxes, host, j, k) == ProxyGetTrap(sandboxes[j], host, j, k)

ActiveSandboxes == {i \in Sandboxes : proxySandbox[i].created /\ proxySandbox[i].sandboxRunning}

CreatedSandboxes == {i \in Sandboxes : proxySandbox[i].created}

\* other handles return for k what they returned before the step
OthersUnchanged(i, k) ==
  \A j \in CreatedSandboxes \ {i} :
    ReadThrough(proxySandbox', rawWindow', j, k) = ReadThrough(proxySandbox, rawWindow, j, k)

Overwritable(i, k) ==
  /\ k \notin SelfReferenceKeys
  /\ k \notin proxySandbox[i].propertiesWithGetter
  /\ IF HasOwn(proxySandbox[i].fakeWindow, k)
     THEN ~Assign(proxySandbox[i].fakeWindow, k, Undefined).threw
     ELSE HasOwn(rawWindow, k) => rawWindow[k].writable \/ rawWindow[k].setter

C5_WhitelistSharedAndRestored ==
  [][/\ \A i \in ActiveSandboxes, k \in globalVariableWhiteList, v \in TenantValues :
          ProxySet(i, k, v) =>
            \A j \in CreatedSandboxes : ReadThrough(proxySandbox', rawWindow', j, k) = v
     /\ \A i \in ActiveSandboxes :
          ProxyInactive(i) /\ (\A j \in Sandboxes : ~proxySandbox'[j].sandboxRunning) =>
            \A k \in globalVariableWhiteList : rawWindow'[k] = ProxyInitialWindow[k]]_vars

\* C6: the bootstrap-point patches of a container are installed once, when
\* the container is created, and the mount-point patches once in every mount:
\* after m mount calls the container holds the free-handles of the creation-time
\* bootstrap installation and of the m-th mount installation.
C6_PatchInstallCounts ==
  \A t \in Tenants :
    sandboxContainer[t].created =>
      /\ sandboxContainer[t].bootstrapInstalls = 1
      /\ sandboxContainer[t].bootstrappingFreers = BootFreers
      /\ sandboxContainer[t].mountInstalls = sandboxContainer[t].mountCalls
      /\ sandboxContainer[t].mountCalls > 0 =>
           sandboxContainer[t].mountingFreers = MountFreers(sandboxContainer[t].mountCalls)

\* a container in its second mount, after an unmount
C6_Witness ==
  \E t \in Tenants :
    /\ sandboxContainer[t].created
    /\ sandboxContainer[t].mountCalls = 2
    /\ sandboxContainer[t].sandboxRunning
    /\ sandboxContainer[t].rebuilt = BootFreers \o MountFreers(1)

\* the wrapper element of tenant t has been resolved and rendered by the
\* current mount pipeline and not yet detached
RenderedPcs == (MountingPcs \ {"m_wait", "m_waiting", "m_elem", "m_render"})
               \cup {"mounted"} \cup (UnmountingPcs \ {"u_resolve"})

\* C7: the tenant's bootstrap hook runs at most once per load, however often
\* the tenant is remounted; the wrapper element a mount pipeline renders was
\* never torn down, and it is a new element whenever an earlier mount's element
\* was torn down or the remount container differs from the initial container.
C7_RemountReuse ==
  \A t \in Tenants :
    /\ bootstrapCalls[t] <= 1
    /\ pc[t] \in RenderedPcs =>
         /\ appWrapperElement[t] # Null
         /\ appWrapperElement[t] \notin tornDown
         /\ (UseNewContainer(t) \/ nMounts[t] > 1) =>
              appWrapperElement[t] = <<t, nMounts[t]>>

\* a tenant loaded once is mounted a second time, into a new container, after
\* an unmount and a cached loadMicroApp call
C7_Witness ==
  \E t \in Tenants :
    /\ pc[t] = "mounted"
    /\ nMounts[t] = 2
    /\ UseNewContainer(t)
    /\ parcel[t].bootstrap = "empty"
    /\ bootstrapCalls[t] = 1
    /\ <<t, 0>> \in tornDown

\* the candidates of a call in the order they are to be tried: the exports,
\* the value under the last-written key (when there is such a key), the value
\* under the tenant's name
Candidates(in) ==
  << in.scriptExports >>
  \o (IF in.globalLatestSetProp # NullKey
      THEN << in.global[in.globalLatestSetProp] >> ELSE << >>)
  \o << in.global[in.appName] >>

FirstWithShape(candidates) ==
  LET matching == {i \in 1..Len(candidates) : validateExportLifecycle(candidates[i])}
  IN IF matching = {} THEN QiankunError
     ELSE Returned(candidates[CHOOSE i \in matching : \A j \in matching : i <= j])

\* C8: discovery returns the first of the three candidates, in order, that has
\* the three hooks, and throws if and only if none of them has.
C8_FirstCandidateWithShape ==
  lifecycleResult.done => lifecycleResult = FirstWithShape(Candidates(lifecycleInput))

\* C9: every mount pipeline that has begun eventually completes or rejects.
C9_MountSettles ==
  \A t \in Tenants : (pc[t] \in MountingPcs) ~> (pc[t] \notin MountingPcs)

\* C10: a rejected step or hook is the last thing its pipeline runs: nothing
\* follows a rejection in the pipeline's trace, and a rejected pipeline is
\* never resumed or retried.
C10_RejectionStopsPipeline ==
  /\ [](\A t \in Tenants : \A i \in 1..Len(trace[t]) :
          trace[t][i][3] = "reject" => i = Len(trace[t]) /\ pc[t] = "broken")
  /\ [][\A t \in Tenants : pc[t] = "broken" =>
          pc'[t] = "broken" /\ trace'[t] = trace[t]]_vars

\* the first hook of a two-hook chain rejected in a mount pipeline
C10_Witness ==
  \E t \in Tenants :
    /\ pc[t] = "broken"
    /\ Len(trace[t]) > 0
    /\ trace[t][Len(trace[t])] = <<"beforeMount", 1, "reject">>

\* the wrapper getter of tenant t has thrown its configuration error
ConfigErrorRaised(t) ==
  \E i \in 1..Len(trace[t]) : trace[t][i][3] = "QiankunError"

\* C11: the configuration error of a render callback combined with strict
\* or scoped style isolation is raised before the tenant's sandbox is
\* constructed or activated and before the tenant's script is executed:
\* when the error has been raised for a tenant, that tenant has no sandbox
\* container and its sandbox was never mounted.
C11_ConfigErrorBeforeSandbox ==
  \A t \in Tenants :
    ConfigErrorRaised(t) =>
      /\ ~sandboxContainer[t].created
      /\ pc[t] \in {"notLoaded", "loading"}

\* C15: the snapshot and the exclusive-instance strategies are selected only
\* under singular mode, the exclusive-instance strategy only when the
\* configuration asks for loose isolation, and a host without window.Proxy
\* gets the snapshot strategy.
C15_StrategyMatchesMode ==
  \A t \in Tenants :
    sandboxContainer[t].created =>
      LET strategy == sandboxContainer[t].strategy IN
        /\ strategy \in {"SnapshotSandbox", "LegacySandbox"} => singular
        /\ strategy = "LegacySandbox" => sandbox.loose
        /\ ~windowProxy => strategy = "SnapshotSandbox"

\* C12: a property set through the handle of an inactive exclusive-instance
\* sandbox or of an inactive virtualized sandbox does not throw, whatever
\* the key and the value.
C12_InactiveSetNeverThrows ==
  /\ ~legacy.sandboxRunning =>
        \A p \in LegacyKeys \cap DOMAIN rawWindow, value \in TenantValues :
          ~setTrap(legacy, rawWindow, p, value, Read(rawWindow, p), TRUE).threw
  /\ \A i \in Sandboxes :
        proxySandbox[i].created /\ ~proxySandbox[i].sandboxRunning =>
          \A p \in ProxyKeys \cap DOMAIN rawWindow, value \in TenantValues :
            ~ProxyHandleSet(proxySandbox[i], rawWindow, p, value).threw

\* C13: a <style> element that carries the processed marker is not rewritten
\* again, by a further process call or by the callback of the watch, and a
\* process call on a non-empty element leaves the marker on it; processing
\* an element twice therefore leaves the text of the first processing.
C13_ProcessedOnce ==
  [][\A n \in StyleNodes :
       /\ (CssProcess(n) \/ ObserverCallback(n)) /\ styleNode[n].modified =>
            styleNode'[n].textContent = styleNode[n].textContent
       /\ CssProcess(n) /\ styleNode[n].textContent # << >> =>
            styleNode'[n].modified]_vars

\* a non-empty element was processed twice and rewritten once
C13_Witness ==
  \E n \in StyleNodes :
    /\ styleNode[n].calls = 2
    /\ styleNode[n].observers = 0
    /\ styleNode[n].rewrites = 1
    /\ styleNode[n].textContent # styleNode[n].written

\* a selector without its leading descendant or child combinator
DropCombinator(member) ==
  SubSeq(member, RunLength(member, 1, {" ", ">"}) + 1, Len(member))

\* the scoped form of one member of a selector group: the root combination
\* stripped, then the prefix in place of a leading root token or before the
\* first compound selector
RECURSIVE ScopedMember(_)
ScopedMember(member) ==
  IF member \in {<<"html">>, <<"body">>, <<":", "root">>} THEN <<Prefix>>
  ELSE IF member[1] = "html" /\ member[2] = " " /\ member[3] \notin {"+", "~"}
  THEN ScopedMember(DropCombinator(Tail(member)))
  ELSE IF RootAt(member, 1) > 0
  THEN <<Prefix>> \o SubSeq(member, RootAt(member, 1) + 1, Len(member))
  ELSE <<Prefix, " ">> \o member

\* C14: the rewrite of a style rule turns every member of its selector group
\* into its scoped form; with the prefix div[data-x="a"], `body` becomes the
\* prefix, `.foo, .bar` becomes the prefix before .foo and before .bar, and
\* `html body` becomes the prefix.
C14_SelectorRewrite ==
  \A n \in StyleNodes :
    LET node == styleNode[n] IN
      /\ node.rewrites = 1
      /\ node.textContent # << >>
      /\ Len(node.written) = 1
      /\ node.written[1].type = "style"
      => LET members == SplitGroup(SelectorPart(node.written[1].text), 1, << >>)
             scoped == SplitGroup(SelectorPart(node.textContent[1].text), 1, << >>)
         IN scoped = [i \in 1..Len(members) |-> ScopedMember(members[i])]

\* the steps of the two pipelines in the order of the arrays of loader.ts
MountSteps ==
  <<"wait", "element", "render", "sandbox", "beforeMount", "mount", "rendered",
    "afterMount", "arm">>

UnmountSteps ==
  <<"beforeUnmount", "unmount", "sandbox", "afterUnmount", "detach",
    "offGlobalStateChange", "resolve">>

StepRank(steps, label) == CHOOSE i \in 1..Len(steps) : steps[i] = label

\* tr runs the steps in order from the first one, skipping none: an entry
\* follows only an entry that settled without rejection, and it belongs to
\* the next hook of the same hook list or, the list finished, to the next step
InOrder(tr, steps) ==
  /\ \A i \in 1..Len(tr) : \E r \in 1..Len(steps) : steps[r] = tr[i][1]
  /\ Len(tr) > 0 => StepRank(steps, tr[1][1]) = 1 /\ tr[1][2] \in {0, 1}
  /\ \A i \in 1..(Len(tr) - 1) :
       /\ tr[i][3] = "ok"
       /\ \/ /\ StepRank(steps, tr[i + 1][1]) = StepRank(steps, tr[i][1]) + 1
             /\ tr[i][2] \in {0, HooksPerChain}
             /\ tr[i + 1][2] \in {0, 1}
          \/ /\ tr[i + 1][1] = tr[i][1]
             /\ tr[i][2] >= 1
             /\ tr[i + 1][2] = tr[i][2] + 1

\* the pipeline of tenant t that broke was a mount pipeline
BrokenWhileMounting(t) ==
  pc[t] = "broken" /\ Len(trace[t]) > 0 /\ trace[t][1][1] = "wait"

\* C16: the steps of a mount pipeline run in the order wait, wrapper element,
\* render, sandbox activation, beforeMount hooks, mount hook, afterMount
\* hooks, arming of the unmount signal, none before the one before it
\* settled; the sandbox is running when the mount hook is invoked, and the
\* signal of this mount is armed only by the last step.
C16_MountOrder ==
  \A t \in Tenants :
    /\ pc[t] \in MountingPcs \cup {"mounted"} \/ BrokenWhileMounting(t) =>
         InOrder(trace[t], MountSteps)
    /\ pc[t] = "m_mount" => sandboxContainer[t].sandboxRunning
    /\ pc[t] \in MountingPcs => prevAppUnmountedDeferred # <<t, nMounts[t]>>
    /\ pc[t] = "mounted" =>
         /\ Len(trace[t]) = 7 + 2 * HooksPerChain
         /\ trace[t][Len(trace[t])] = <<"arm", 0, "ok">>

\* under singular mode a second mount pipeline of a tenant waited for the
\* unmount signal, ran all its steps and armed a new signal
C16_Witness ==
  \E t \in Tenants :
    /\ singular
    /\ pc[t] = "mounted"
    /\ nMounts[t] = 2
    /\ prevAppUnmountedDeferred = <<t, 2>>
    /\ trace[t][6] = <<"beforeMount", 2, "ok">>

\* C17: the steps of an unmount pipeline run in the order beforeUnmount
\* hooks, unmount hook, sandbox deactivation, afterUnmount hooks, detaching
\* of the element, release of the state subscription, resolution of the
\* unmount signal; the sandbox is running when the unmount hook is invoked,
\* and when the signal is resolved the sandbox is stopped and the element
\* detached.
C17_UnmountOrder ==
  \A t \in Tenants :
    /\ pc[t] \in UnmountingPcs
          \/ (pc[t] \in {"notMounted", "broken"} /\ Len(trace[t]) > 0
                /\ ~BrokenWhileMounting(t)) =>
         InOrder(trace[t], UnmountSteps)
    /\ pc[t] = "u_unmount" => sandboxContainer[t].sandboxRunning
    /\ pc[t] = "u_resolve" =>
         /\ ~sandboxContainer[t].sandboxRunning
         /\ appWrapperElement[t] = Null
         /\ \A m \in 0..MaxMounts : <<t, m>> \notin dom[parcel[t].remountContainer]

\* under singular mode a tenant's unmount pipeline ran all its steps and
\* resolved the armed signal
C17_Witness ==
  \E t \in Tenants :
    /\ singular
    /\ pc[t] = "notMounted"
    /\ Len(trace[t]) = 5 + 2 * HooksPerChain
    /\ trace[t][Len(trace[t])] = <<"resolve", 0, "ok">>
    /\ prevAppUnmountedDeferred \in deferredResolved

\* C18: activeSandboxCount equals the number of virtualized sandboxes whose
\* running flag is set, and it is never negative.
C18_CounterMatchesRunning ==
  /\ activeSandboxCount = Cardinality(ActiveSandboxes)
  /\ activeSandboxCount >= 0

\* the deactivation of sandbox i changes a whitelisted key of the host
WhitelistTouched ==
  \E p \in globalVariableWhiteList : rawWindow'[p] # rawWindow[p]

\* C19: the deactivation of a running virtualized sandbox while another one
\* is running leaves every whitelisted key of the host as it is, and a
\* deactivation that changes a whitelisted key brings the counter to zero.
C19_RestoreOnlyByLastDeactivation ==
  [][\A i \in Sandboxes :
       ProxyInactive(i) =>
         /\ proxySandbox[i].sandboxRunning /\ ActiveSandboxes \ {i} # {} =>
              ~WhitelistTouched
         /\ WhitelistTouched => activeSandboxCount' = 0]_vars

\* C20: every entry of modifiedPropsOriginalValueMapInSandbox belongs to a
\* key the host owned before the tenant wrote to it and holds the value the
\* host had for that key then.
C20_ModifiedRecordsHostOriginals ==
  \A i \in 1..Len(legacy.modifiedPropsOriginalValueMapInSandbox) :
    LET entry == legacy.modifiedPropsOriginalValueMapInSandbox[i] IN
      /\ HasOwn(LegacyInitialWindow, entry[1])
      /\ entry[2] = Read(LegacyInitialWindow, entry[1])

\* the descriptor sandbox sb has cached for whitelisted key p
CachedDescriptor(sb, p) == MapGet(sb.globalWhitelistPrevDescriptor, p)

\* C21: the descriptor a virtualized sandbox caches for a whitelisted key is
\* the host's own descriptor (or absence) from just before that sandbox's
\* first write of the key, and a later write of the same key by the same
\* sandbox leaves the cached descriptor as it is.
C21_WhitelistDescriptorCachedOnce ==
  [][\A i \in ActiveSandboxes, k \in globalVariableWhiteList, v \in TenantValues :
       ProxySet(i, k, v) =>
         CachedDescriptor(proxySandbox'[i], k) =
           IF MapHas(proxySandbox[i].globalWhitelistPrevDescriptor, k)
           THEN CachedDescriptor(proxySandbox[i], k)
           ELSE rawWindow[k]]_vars

\* C22: active() of the exclusive-instance sandbox after an inactive() replays
\* currentUpdatedPropsValueMap onto the host: afterwards every recorded key
\* that was configurable (or absent) on the host and is not a symbol holds on
\* the host the value the tenant wrote last, which is the value the record
\* keeps for it; an active() of a sandbox that is running, as it is after
\* construction, leaves the host unchanged.
C22_ActivateReplaysCurrentValues ==
  [][/\ LegacyActive /\ ~legacy.sandboxRunning =>
          \A n \in 1..Len(legacy.currentUpdatedPropsValueMap) :
            LET p == legacy.currentUpdatedPropsValueMap[n][1]
                v == legacy.currentUpdatedPropsValueMap[n][2]
            IN isPropConfigurable(rawWindow, p) /\ p \notin SymbolKeys =>
                 HasOwn(rawWindow', p) /\ Read(rawWindow', p) = v
     /\ LegacyActive /\ legacy.sandboxRunning => rawWindow' = rawWindow
     /\ \A p \in LegacyKeys, v \in TenantValues :
          LegacySet(p, v) /\ legacy.sandboxRunning =>
            MapGet(legacy'.currentUpdatedPropsValueMap, p) = v
     /\ \A p \in LegacyKeys, attributes \in DataDescriptors :
          /\ LegacyDefineProperty(p, attributes)
          /\ legacy.sandboxRunning
          /\ DefineOwn(rawWindow, p, attributes).done
          => MapGet(legacy'.currentUpdatedPropsValueMap, p) = attributes.value]_vars

\* the tenant's only write was proxy.fixed = 2, which the read-only host key
\* rejected; inactive() made the key writable and the next active() replayed
\* the recorded 2 onto the host
C22_Witness ==
  /\ legacy.sandboxRunning
  /\ legacy.latestSetProp = NullKey
  /\ MapHas(legacy.currentUpdatedPropsValueMap, "fixed")
  /\ Read(rawWindow, "fixed") = 2

\* the steps of the container's latest call ended with the deactivation of the
\* sandbox: the call was an unmount()
LastCallWasUnmount(c) ==
  c.steps # << >> /\ c.steps[Len(c.steps)] = Step("inactive", NoHandle)

\* C23: a container mount() that follows an unmount() activates the sandbox,
\* then replays the rebuilders of the bootstrap-point free-handles, then
\* installs the mount-point patches afresh, then replays the rebuilders of the
\* previous mount-point free-handles, the stored rebuilders being split by
\* position (the first as many as there are bootstrap-point free-handles are
\* the bootstrap ones); unmount() invokes every free-handle, the
\* bootstrap-point ones first, and then deactivates the sandbox.
C23_ContainerStepOrder ==
  [][\A t \in Tenants :
       LET c == sandboxContainer[t] IN
         /\ MountContainer(t) /\ LastCallWasUnmount(c) =>
              sandboxContainer'[t].steps =
                <<Step("active", NoHandle)>>
                \o StepEach("rebuild", c.bootstrappingFreers)
                \o <<Step("patchAtMounting", NoHandle)>>
                \o StepEach("rebuild", c.mountingFreers)
         /\ UnmountContainer(t) =>
              sandboxContainer'[t].steps =
                StepEach("free", c.bootstrappingFreers)
                \o StepEach("free", c.mountingFreers)
                \o <<Step("inactive", NoHandle)>>]_vars

\* a container in a mount that followed the unmount of its first mount: the
\* bootstrap-point rebuilder ran before the patch installation and the two
\* mount-point rebuilders after it
C23_Witness ==
  \E t \in Tenants :
    /\ sandboxContainer[t].created
    /\ sandboxContainer[t].steps =
         <<Step("active", NoHandle), Step("rebuild", <<"boot", 0, 1>>),
           Step("patchAtMounting", NoHandle),
           Step("rebuild", <<"mount", 1, 1>>), Step("rebuild", <<"mount", 1, 2>>)>>

\* the free-handles a container's patch installations have produced, and the
\* rebuilders their invocations have returned
ProducedFreers(c) == DOMAIN c.freeCalls
ProducedRebuilders(c) == DOMAIN c.rebuildCalls

\* the free-handles the container still holds, and the rebuilders it has stored
HeldFreers(c) == Range(c.bootstrappingFreers) \cup Range(c.mountingFreers)
StoredRebuilders(c) == {Rebuilder(c, h) : h \in Range(c.sideEffectsRebuilders)}

\* C24: whatever the sequence of mount() and unmount() calls on a container,
\* no free-handle is invoked more than once, a free-handle the container no
\* longer holds has been invoked, a free-handle is not held uninvoked after an
\* unmount(), no rebuilder is invoked more than once, and a rebuilder the
\* container no longer stores has been invoked.
C24_FreeAndRebuildExactlyOnce ==
  \A t \in Tenants :
    LET c == sandboxContainer[t] IN
      c.created =>
        /\ \A h \in ProducedFreers(c) :
             /\ c.freeCalls[h] <= 1
             /\ h \notin HeldFreers(c) => c.freeCalls[h] = 1
             /\ LastCallWasUnmount(c) => c.freeCalls[h] = 1
        /\ \A r \in ProducedRebuilders(c) :
             /\ c.rebuildCalls[r] <= 1
             /\ r \notin StoredRebuilders(c) => c.rebuildCalls[r] = 1

\* C25: under singular mode loadApp creates the wrapper element, constructs
\* the sandbox, runs the beforeLoad hooks and executes the tenant's entry
\* script only after the unmount-completion signal it found armed at the load
\* gate has been resolved, and at that moment no other tenant is mounted.
C25_LoadWaitsForPreviousUnmount ==
  [][\A t \in Tenants :
       LoadFinish(t) /\ singular =>
         /\ awaiting[t] # NoDeferred => awaiting[t] \in deferredResolved
         /\ \A a \in Tenants \ {t} : pc[a] \notin MountedPcs]_vars

\* C26: with singular given as a function of the tenant descriptor, each of
\* the four gates (load wait, mount wait, arming the signal after mount,
\* resolving it after unmount) acts on what the function returns for the
\* tenant's state at that gate, not on a result computed at an earlier gate.
C26_SingularEvaluatedAtEachGate ==
  [][\A t \in Tenants :
       /\ LoadBegin(t) =>
            awaiting'[t] = IF app[t] THEN prevAppUnmountedDeferred ELSE NoDeferred
       /\ MountWait(t) =>
            (pc'[t] = "m_waiting" <=> app[t] /\ prevAppUnmountedDeferred # NoDeferred)
       /\ MountArm(t) =>
            prevAppUnmountedDeferred' =
              IF app[t] THEN <<t, nMounts[t]>> ELSE prevAppUnmountedDeferred
       /\ UnmountResolve(t) =>
            deferredResolved' =
              IF app[t] /\ prevAppUnmountedDeferred # NoDeferred
              THEN deferredResolved \cup {prevAppUnmountedDeferred}
              ELSE deferredResolved]_vars

\* tenant t's mount pipeline armed the signal, the function's result for t
\* then changed to false, and t's unmount pipeline completed without
\* resolving the signal
C26_Witness ==
  \E t \in Tenants :
    /\ singularIsFunction
    /\ pc[t] = "notMounted"
    /\ ~app[t]
    /\ prevAppUnmountedDeferred = <<t, nMounts[t]>>
    /\ prevAppUnmountedDeferred \notin deferredResolved

\* the host owns k as a property that is neither writable nor has a setter,
\* and the overlay of sandbox i does not own k
ReadOnlyOnHostOnly(i, k) ==
  /\ HasOwn(rawWindow, k)
  /\ ~rawWindow[k].writable
  /\ ~rawWindow[k].setter
  /\ ~HasOwn(proxySandbox[i].fakeWindow, k)

OverlayThenHost(i, k) ==
  IF HasOwn(proxySandbox[i].fakeWindow, k) THEN Read(proxySandbox[i].fakeWindow, k)
  ELSE Read(rawWindow, k)

C29_HooksConcatenatedAndSequential ==
  hookResult.done =>
    LET n == hookResult.name
        ran == hookResult.ran
    IN /\ hookResult.merged = getAddOns[n].items \o hookInput[n].items
       /\ Len(ran) <= Len(hookResult.merged)
       /\ \A i \in 1..Len(ran) :
            /\ ran[i][1] = i
            /\ i < Len(ran) => ran[i][2] = "ok"
       /\ Len(ran) < Len(hookResult.merged) => ran[Len(ran)][2] = "reject"

\* the two add-on beforeLoad hooks and the caller's two beforeLoad hooks were
\* merged into a list of four, and all four ran
C29_Witness ==
  /\ hookResult.done
  /\ hookResult.name = "beforeLoad"
  /\ hookResult.merged = <<<<"engineFlag", "beforeLoad">>, <<"publicPath", "beforeLoad">>,
                           <<"caller1", "beforeLoad">>, <<"caller2", "beforeLoad">>>>
  /\ Len(hookResult.ran) = 4

\* the combinator that follows a leading `html` in a selector: "+", "~", ">"
\* or, for whitespace alone, " "; "" when the selector does not begin with a
\* combination of the root element
CombinatorAfterRoot(selector) ==
  IF Len(selector) < 3 \/ selector[1] # "html" \/ selector[2] # " " THEN ""
  ELSE IF selector[3] \in {"+", "~", ">"} THEN selector[3]
  ELSE " "

\* the style nodes whose one style rule, with a selector of one member, was
\* rewritten once
RewrittenOnce(n) ==
  LET node == styleNode[n] IN
    /\ node.rewrites = 1
    /\ node.textContent # << >>
    /\ Len(node.written) = 1
    /\ node.written[1].type = "style"
    /\ Len(SplitGroup(SelectorPart(node.written[1].text), 1, << >>)) = 1

\* C30: the rewrite leaves a rule whose selector combines the root element
\* with a sibling combinator (`html + body`, `html ~ body`) as it was, the
\* root portion not stripped and no root token replaced by the prefix; of a
\* selector that combines the root with descendants by whitespace or `>` the
\* root portion is stripped and the rest is scoped with the prefix.
C30_SiblingUntouchedDescendantStripped ==
  \A n \in StyleNodes :
    RewrittenOnce(n) =>
      LET written == styleNode[n].written[1].text
          selector == Trim(SelectorPart(written))
          result == styleNode[n].textContent[1].text
      IN /\ CombinatorAfterRoot(selector) \in {"+", "~"} =>
              result = ParseStyleRule(written).cssText
         /\ CombinatorAfterRoot(selector) \in {" ", ">"} =>
              Trim(SelectorPart(result)) = ScopedMember(selector)

\* C34: no set, defineProperty or deleteProperty through a handle, in any
\* order and after any getOwnPropertyDescriptor calls, changes, adds or
\* removes a key of the host outside the whitelist.
C34_HostUntouchedOutsideWhitelist ==
  \A k \in ProxyKeys \ globalVariableWhiteList : rawWindow[k] = ProxyInitialWindow[k]

\* C35: while a sandbox is inactive, a set, defineProperty or deleteProperty
\* through its handle changes neither the host nor the sandbox's overlay,
\* records and last-written key.
C35_InactiveHandleChangesNothing ==
  [][\A i \in CreatedSandboxes, k \in TrapKeys, a \in TrapDescriptors :
       /\ ~proxySandbox[i].sandboxRunning
       /\ ProxySet(i, k, 2) \/ ProxyDelete(i, k) \/ ProxyDefineProperty(i, k, a)
       => /\ rawWindow' = rawWindow
          /\ proxySandbox'[i] = proxySandbox[i]]_vars

\* the write of v to key k through handle i took effect on the tenant's view:
\* the overlay, or for a whitelisted key the host, holds v under k afterwards
TookEffect(sandboxes, host, i, k, v) ==
  IF InWhiteList(k) THEN HasOwn(host, k) /\ Read(host, k) = v
  ELSE HasOwn(sandboxes[i].fakeWindow, k) /\ Read(sandboxes[i].fakeWindow, k) = v

\* C37: the last-written-key record changes only with a write that took
\* effect, and then to the key of that write: a write that is dropped, or
\* made while the sandbox is inactive, leaves the record as it was.
C37_LatestSetPropIsLastEffectiveWrite ==
  [][\A i \in CreatedSandboxes, k \in TrapKeys :
       ProxySet(i, k, 2) =>
         proxySandbox'[i].latestSetProp =
           IF proxySandbox[i].sandboxRunning
              /\ TookEffect(proxySandbox', rawWindow', i, k, 2)
           THEN k
           ELSE proxySandbox[i].latestSetProp]_vars

\* C36: a key the host assigned while the sandbox was inactive holds the
\* host's value after the sandbox's next activate() / inactive() cycle.
C36_HostChangeSurvivesCycle ==
  ~legacy.sandboxRunning =>
    \A k \in hostChange.before : Read(rawWindow, k) \in HostValues

\* the element of tenant t's pipeline is a child of no container
AttachedNowhere(d, element) == \A c \in Containers : element \notin d[c]

\* C31: with the default renderer a render into an absent container in the
\* loading, mounting or mounted phase, and a call of the wrapper getter
\* without a wrapper element, fail with QiankunError and leave the tenant's
\* element attached nowhere; the detach step tolerates an absent container,
\* releases the state-channel subscription and drops the wrapper element, and
\* the resolve step resolves the singular unmount signal.
C31_AbsentContainerFatalUnlessUnmounted ==
  [][\A t \in Tenants :
       /\ LoadFinish(t) /\ InitialContainer(t) \notin containers =>
            /\ pc'[t] = "broken"
            /\ trace'[t][Len(trace'[t])] = <<"load", 0, "QiankunError">>
            /\ AttachedNowhere(dom', <<t, 0>>)
       /\ MountRender(t) /\ parcel[t].remountContainer \notin containers =>
            /\ pc'[t] = "broken"
            /\ trace'[t][Len(trace'[t])] = <<"render", 0, "QiankunError">>
            /\ AttachedNowhere(dom', appWrapperElement'[t])
       /\ MountRendered(t) /\ parcel[t].remountContainer \notin containers =>
            /\ pc'[t] = "broken"
            /\ trace'[t][Len(trace'[t])] = <<"rendered", 0, "QiankunError">>
            /\ AttachedNowhere(dom', appWrapperElement[t])
       /\ SandboxReadsWrapper(t) /\ initialAppWrapperElement[t] = Null =>
            wrapperRead'[t] = "QiankunError"
       /\ UnmountDetach(t) /\ parcel[t].remountContainer \notin containers =>
            /\ pc'[t] = "u_resolve"
            /\ deps'[t] = NoListener
            /\ appWrapperElement'[t] = Null
            /\ initialAppWrapperElement'[t] = Null
       /\ UnmountResolve(t) /\ prevAppUnmountedDeferred # NoDeferred =>
            /\ pc'[t] = "notMounted"
            /\ prevAppUnmountedDeferred \in deferredResolved']_vars

\* a tenant's unmount pipeline ran to its end and resolved the signal, the
\* sandbox's call of the wrapper getter failed for want of an element, and the
\* tenant's next mount broke at its render step, the container being absent
C31_Witness ==
  \E t \in Tenants :
    /\ pc[t] = "broken"
    /\ wrapperRead[t] = "QiankunError"
    /\ nMounts[t] = 2
    /\ trace[t][Len(trace[t])] = <<"render", 0, "QiankunError">>
    /\ parcel[t].remountContainer \notin containers
    /\ prevAppUnmountedDeferred = <<t, 1>>
    /\ prevAppUnmountedDeferred \in deferredResolved

\* the last unmount pipeline of tenant t ran to its end and no mount pipeline
\* of t has started since
UnmountCompleted(t) ==
  /\ pc[t] \in {"notMounted", "notBootstrapped"}
  /\ trace[t] # << >>
  /\ trace[t][Len(trace[t])] = <<"resolve", 0, "ok">>

C40_DetachRemovesOwnElementOnly ==
  [][\A t \in Tenants :
       ~singular /\ UnmountDetach(t) =>
         dom' = [dom EXCEPT ![parcel[t].remountContainer] = @ \ {appWrapperElement[t]}]]_vars

\* the listeners of a set of subscriptions, each with the number of subscriptions it has
ListenersOf(h, ids) ==
  [l \in {h.listener[id] : id \in ids} |-> Cardinality({id \in ids : h.listener[id] = l})]

\* the members of a sequence, each with the number of times it occurs
BagOfSeq(s) == [x \in Range(s) |-> Cardinality({i \in DOMAIN s : s[i] = x})]

\* C33: once the free-handle of the history listener patch has run, no subscription made
\* through the patched listen is still on the history object and listen is the original
\* function again; the rebuild callback registers exactly the listeners whose subscriptions
\* the tenant had not removed when the free-handle ran, and is a no-op when there were none
C33_FreeUnsubscribesAndRebuildRestores ==
  /\ [](g_history.phase \in {"freed", "rebuilt"} =>
          /\ g_history.viaPatch \cap g_history.subscribed = {}
          /\ g_history.listen # "patched"
          /\ g_history.atFree = {} => g_history.rebuild = "noop")
  /\ [][RebuildHistoryListener =>
          /\ BagOfSeq(g_history'.rebuilt) = ListenersOf(g_history, g_history.atFree)
          /\ g_history.rebuild = "noop" => g_history'.subscribed = g_history.subscribed]_vars

\* C38: once loadApp has rejected for the tenant name and container, a later call of
\* loadMicroApp for them starts a load of its own and is not given the rejected promise
C38_FailedLoadNotReused ==
  [][\A cacheLifecycleByAppName \in BOOLEAN :
       LoadMicroApp(cacheLifecycleByAppName) =>
         LET i == Len(microApps'.apps) IN
           /\ microApps'.loads[microApps'.apps[i].load] # "rejected"
           /\ "rejected" \in Range(microApps.loads) =>
                microApps'.apps[i].load = Len(microApps.loads) + 1]_vars

\* micro app j has finished unmounting
Unmounted(j) == microApps.apps[j].unmountPromise = "resolved"

\* C39: a micro app made by a later call of loadMicroApp for the same tenant name and
\* container runs no step of its mount pipeline before every micro app made by an earlier
\* call has finished unmounting or is broken, and a micro app leaves the list of its
\* container, alone, once its unmountPromise has settled
C39_LaterInstanceWaitsForEarlier ==
  /\ [](\A i \in 1..Len(microApps.apps) :
          /\ microApps.apps[i].phase = "mounting" =>
               \A j \in 1..(i - 1) : Unmounted(j) \/ microApps.apps[j].status \in Broken
          /\ microApps.apps[i].unmountPromise = "pending" => i \in Range(microApps.containerMicroApps))
  /\ [][\A i \in 1..MaxInstances :
          MicroAppCleanup(i) =>
            /\ i \notin Range(microApps'.containerMicroApps)
            /\ Range(microApps'.containerMicroApps) = Range(microApps.containerMicroApps) \ {i}]_vars

====
